---- MODULE Spec2Model ----
(***************************************************************************)
(* Model of askadb-dashboard-core: the AutoChartingEngine                  *)
(* (src/src/auto-charting.ts), the chart builders it calls                 *)
(* (src/src/chart-generator.ts, the revision at lines 1-367, the one the   *)
(* engine's enrichment pipeline is written against) and the /suggest       *)
(* handler of src/src/server.ts.                                           *)
(*                                                                         *)
(* Representation.                                                         *)
(*  - A JavaScript string is a sequence of one-character strings, so that  *)
(*    toLowerCase, includes and indexOf are computed, not assumed.         *)
(*  - A JavaScript value is a record [t, n, s]: t is its kind ("number",   *)
(*    "NaN", "Infinity", "-Infinity", "string", "boolean", "undefined",    *)
(*    "null"), n the number in hundredths (fixed point, Scale = 100; 1 for *)
(*    true), s the string.                                                 *)
(*  - A row is a sequence of [key, val] pairs in insertion order, which is *)
(*    the order Object.keys gives.                                         *)
(*  - A confidence is an integer number of hundredths.                     *)
(***************************************************************************)
EXTENDS Integers, Sequences, FiniteSets, TLC

VARIABLES
  engine,       \* the fields of each AutoChartingEngine instance
  request,      \* the request in flight: [kind, valid, data, question]
  response,     \* the handler's answer to it: [status, kind, suggestions]
  analysis,     \* the DataStructure and candidate list the answering call derived
  calls,        \* SpecDet: the suggestCharts calls made so far, with what each returned
  sortArgs,     \* SpecSort: the labels and values given to sortLabelsIfMonth
  sortResult,   \* SpecSort: what it returned
  unitArgs,     \* SpecUnit: the function applied and the arguments given to it
  unitResult    \* SpecUnit: what it returned

vars ==
  <<engine, request, response, analysis, calls, sortArgs, sortResult, unitArgs, unitResult>>

(***************************************************************************)
(* Bounds of the model.                                                    *)
(***************************************************************************)
\* the longest dataset the engine is called with
MaxRows == 3
\* the number of suggestCharts calls a behaviour of SpecDet makes
MaxCalls == 3
\* the longest label list sortLabelsIfMonth is applied to in SpecSort, and the
\* longest series applyGrowthEnrichment is applied to in SpecUnit
MaxLabels == 3

(***************************************************************************)
(* JavaScript strings.                                                     *)
(***************************************************************************)
Min(a, b) == IF a < b THEN a ELSE b

Max(a, b) == IF a > b THEN a ELSE b

UpperCase ==
  <<"A","B","C","D","E","F","G","H","I","J","K","L","M",
    "N","O","P","Q","R","S","T","U","V","W","X","Y","Z","Ç","Ã","É","Ê">>

LowerCase ==
  <<"a","b","c","d","e","f","g","h","i","j","k","l","m",
    "n","o","p","q","r","s","t","u","v","w","x","y","z","ç","ã","é","ê">>

Digits == <<"0","1","2","3","4","5","6","7","8","9">>

\* String.prototype.toLowerCase on one character
LowerChar(c) ==
  IF \E i \in 1..Len(UpperCase) : UpperCase[i] = c
  THEN LowerCase[CHOOSE i \in 1..Len(UpperCase) : UpperCase[i] = c]
  ELSE c

toLowerCase(s) == [i \in 1..Len(s) |-> LowerChar(s[i])]

\* String.prototype.includes: k occurs in s as a contiguous substring
includes(s, k) ==
  \E i \in 0..(Len(s) - Len(k)) : \A j \in 1..Len(k) : s[i + j] = k[j]

\* Array.prototype.some(k => s.includes(k)) over a keyword list
includesAny(s, keywords) == \E i \in 1..Len(keywords) : includes(s, keywords[i])

\* Array.prototype.indexOf: 0-based position of the first x in list, or -1
indexOf(list, x) ==
  IF \E i \in 1..Len(list) : list[i] = x
  THEN (CHOOSE i \in 1..Len(list) : list[i] = x /\ \A j \in 1..(i - 1) : list[j] # x) - 1
  ELSE -1

IsDigit(c) == \E i \in 1..Len(Digits) : Digits[i] = c

DigitValue(c) == (CHOOSE i \in 1..Len(Digits) : Digits[i] = c) - 1

\* decimal digits of a natural number
RECURSIVE NatToString(_)
NatToString(n) ==
  IF n < 10 THEN <<Digits[n + 1]>>
  ELSE NatToString(n \div 10) \o <<Digits[(n % 10) + 1]>>

\* the natural number an all-digit string denotes
RECURSIVE DigitsToNat(_)
DigitsToNat(s) ==
  IF s = <<>> THEN 0
  ELSE 10 * DigitsToNat(SubSeq(s, 1, Len(s) - 1)) + DigitValue(s[Len(s)])

(***************************************************************************)
(* JavaScript values.  Numbers are fixed point, in hundredths.             *)
(***************************************************************************)
Scale == 100

Num(i) == [t |-> "number", n |-> i * Scale, s |-> <<>>]

Fixed(h) == [t |-> "number", n |-> h, s |-> <<>>]

NaN == [t |-> "NaN", n |-> 0, s |-> <<>>]

Str(s) == [t |-> "string", n |-> 0, s |-> s]

Bool(b) == [t |-> "boolean", n |-> IF b THEN 1 ELSE 0, s |-> <<>>]

Undefined == [t |-> "undefined", n |-> 0, s |-> <<>>]

Null == [t |-> "null", n |-> 0, s |-> <<>>]

NegInfinity == [t |-> "-Infinity", n |-> 0, s |-> <<>>]

PosInfinity == [t |-> "Infinity", n |-> 0, s |-> <<>>]

\* typeof v === 'number' (NaN is a number)
IsNumber(v) == v.t \in {"number", "NaN", "-Infinity", "Infinity"}

\* v is null or undefined, the left operands that ?? replaces
IsNullish(v) == v.t \in {"undefined", "null"}

\* JavaScript truthiness, the test behind a || b
Truthy(v) ==
  CASE v.t = "number" -> v.n # 0
    [] v.t = "string" -> v.s # <<>>
    [] v.t = "boolean" -> v.n = 1
    [] v.t \in {"-Infinity", "Infinity"} -> TRUE
    [] OTHER -> FALSE

\* a ?? b
Coalesce(a, b) == IF IsNullish(a) THEN b ELSE a

\* a || b
OrElse(a, b) == IF Truthy(a) THEN a ELSE b

\* Number(v).  A string is numeric when it is empty or all digits; the strings
\* of the model are words, so signs, blanks, exponents and "Infinity" do not arise.
Number(v) ==
  CASE v.t \in {"number", "NaN", "-Infinity", "Infinity"} -> v
    [] v.t = "boolean" -> Num(v.n)
    [] v.t = "null" -> Num(0)
    [] v.t = "undefined" -> NaN
    [] v.t = "string" ->
         IF \A i \in 1..Len(v.s) : IsDigit(v.s[i]) THEN Num(DigitsToNat(v.s)) ELSE NaN

\* String(v).  A number prints its integer part and, when it has one, its
\* fraction without trailing zeros.
String(v) ==
  CASE v.t = "string" -> v.s
    [] v.t = "boolean" -> IF v.n = 1 THEN <<"t","r","u","e">> ELSE <<"f","a","l","s","e">>
    [] v.t = "undefined" -> <<"u","n","d","e","f","i","n","e","d">>
    [] v.t = "null" -> <<"n","u","l","l">>
    [] v.t = "NaN" -> <<"N","a","N">>
    [] v.t = "-Infinity" -> <<"-","I","n","f","i","n","i","t","y">>
    [] v.t = "Infinity" -> <<"I","n","f","i","n","i","t","y">>
    [] v.t = "number" ->
         LET a == IF v.n < 0 THEN 0 - v.n ELSE v.n
             whole == NatToString(a \div Scale)
             frac == a % Scale
             tail == IF frac = 0 THEN <<>>
                     ELSE IF frac % 10 = 0 THEN <<".">> \o NatToString(frac \div 10)
                     ELSE <<".">> \o (IF frac < 10 THEN <<"0">> ELSE <<>>) \o NatToString(frac)
         IN (IF v.n < 0 THEN <<"-">> ELSE <<>>) \o whole \o tail

\* a + b on numbers: NaN is absorbing
Add(a, b) ==
  IF a.t = "number" /\ b.t = "number" THEN Fixed(a.n + b.n) ELSE NaN

\* the integer nearest to a / b, halves away from zero: the rounding of toFixed
RoundDiv(a, b) ==
  LET absA == IF a < 0 THEN 0 - a ELSE a
      absB == IF b < 0 THEN 0 - b ELSE b
      magnitude == (2 * absA + absB) \div (2 * absB)
  IN IF (a < 0) = (b < 0) THEN magnitude ELSE 0 - magnitude

(***************************************************************************)
(* Rows and datasets.                                                      *)
(***************************************************************************)
\* Object.keys(row)
Keys(row) == [i \in 1..Len(row) |-> row[i].key]

\* row[column]: undefined when the row has no such key
Get(row, column) ==
  IF \E i \in 1..Len(row) : row[i].key = column
  THEN row[CHOOSE i \in 1..Len(row) : row[i].key = column].val
  ELSE Undefined

\* Object.keys(data[0] || {})
FirstRowKeys(data) == IF Len(data) = 0 THEN <<>> ELSE Keys(data[1])

(***************************************************************************)
(* Column analysis: auto-charting.ts, detectColumnType to                  *)
(* detectGeographicData, analyzeDataStructure and summarizeColumns.        *)
(***************************************************************************)
\* data.slice(0, 10)
SampleSize == 10

\* the month substrings detectColumnType looks for
MonthSubstrings ==
  << <<"j","a","n">>, <<"f","e","v">>, <<"m","a","r">>, <<"a","b","r">>, <<"m","a","i">>, <<"j","u","n">>, <<"j","u","l">>, <<"a","g","o">>,
     <<"s","e","t">>, <<"o","u","t">>, <<"n","o","v">>, <<"d","e","z">>, <<"j","a","n","u","a","r","y">>, <<"f","e","b","r","u","a","r","y">>, <<"m","a","r","c","h">>,
     <<"a","p","r","i","l">>, <<"m","a","y">>, <<"j","u","n","e">>, <<"j","u","l","y">>, <<"a","u","g","u","s","t">>, <<"s","e","p","t","e","m","b","e","r">>,
     <<"o","c","t","o","b","e","r">>, <<"n","o","v","e","m","b","e","r">>, <<"d","e","c","e","m","b","e","r">> >>

\* !isNaN(new Date(val).getTime()).  Node's parser rejects a string that holds
\* no number; the strings of the model that reach this test are such words.
isValidDate(s) == \E i \in 1..Len(s) : IsDigit(s[i])

\* a sample that leaves out the rows in which the column is absent
sampleValues_present(data, column) ==
  SelectSeq([i \in 1..Min(Len(data), SampleSize) |-> Get(data[i], column)],
            LAMBDA v : v.t # "undefined")

\* a sample that holds the value of column in every row
sampleValues_all(data, column) == [i \in 1..Len(data) |-> Get(data[i], column)]

\* the value of column in each of the first SampleSize rows
sampleValues(data, column) ==
  [i \in 1..Min(Len(data), SampleSize) |-> Get(data[i], column)]

detectColumnType(data, column) ==
  LET sample == sampleValues(data, column)
      allNumbers ==
        \A i \in 1..Len(sample) :
          \/ IsNumber(sample[i])
          \/ sample[i].t = "string" /\ Number(sample[i]).t # "NaN"
      allBooleans ==
        \A i \in 1..Len(sample) :
          \/ sample[i].t = "boolean"
          \/ sample[i] = Str(<<"t","r","u","e">>)
          \/ sample[i] = Str(<<"f","a","l","s","e">>)
      allDates ==
        \A i \in 1..Len(sample) :
          /\ sample[i].t = "string"
          /\ \/ includesAny(toLowerCase(sample[i].s), MonthSubstrings)
             \/ isValidDate(sample[i].s)
  IN IF allNumbers THEN "number"
     ELSE IF allBooleans THEN "boolean"
     ELSE IF allDates THEN "date"
     ELSE "string"

\* columnTypes[column]; "undefined" for a column the record lacks
typeOfColumn(columnTypes, column) ==
  IF \E i \in 1..Len(columnTypes) : columnTypes[i].col = column
  THEN columnTypes[CHOOSE i \in 1..Len(columnTypes) : columnTypes[i].col = column].type
  ELSE "undefined"

\* Object.keys(columnTypes)
columnsOf(columnTypes) == [i \in 1..Len(columnTypes) |-> columnTypes[i].col]

\* the name test shared by detectTimeSeries, summarizeColumns and findCategoryColumn
isTimeName(column) ==
  LET lower == toLowerCase(column)
  IN \/ includes(lower, <<"m","o","n","t","h">>)
     \/ includes(lower, <<"d","a","t","e">>)
     \/ includes(lower, <<"t","i","m","e">>)

\* new Set(data.map(row => row[column])).size
uniqueCount(data, column) ==
  Cardinality({Get(data[i], column) : i \in 1..Len(data)})

detectTimeSeries(data, columnTypes) ==
  LET dateColumns == SelectSeq(columnTypes, LAMBDA e : e.type = "date")
      monthColumns == SelectSeq(columnsOf(columnTypes), isTimeName)
  IN Len(dateColumns) > 0 \/ Len(monthColumns) > 0

\* a detection without the upper limit of 20 distinct values
detectCategories_unbounded(data, columnTypes) ==
  \E i \in 1..Len(columnTypes) :
    /\ columnTypes[i].type = "string"
    /\ uniqueCount(data, columnTypes[i].col) > 1

detectCategories(data, columnTypes) ==
  \E i \in 1..Len(columnTypes) :
    /\ columnTypes[i].type = "string"
    /\ uniqueCount(data, columnTypes[i].col) > 1
    /\ uniqueCount(data, columnTypes[i].col) <= 20

detectNumericalComparison(data, columnTypes) ==
  Len(SelectSeq(columnTypes, LAMBDA e : e.type = "number")) >= 2

detectGeographicData(data, columnTypes) ==
  \E i \in 1..Len(columnTypes) :
    LET lower == toLowerCase(columnTypes[i].col)
    IN \/ includes(lower, <<"r","e","g","i","o","n">>)
       \/ includes(lower, <<"c","o","u","n","t","r","y">>)
       \/ includes(lower, <<"s","t","a","t","e">>)
       \/ includes(lower, <<"c","i","t","y">>)
       \/ includes(lower, <<"l","o","c","a","t","i","o","n">>)

analyzeDataStructure(data) ==
  IF Len(data) = 0
  THEN [hasTimeSeries |-> FALSE, hasCategories |-> FALSE,
        hasNumericalComparison |-> FALSE, hasGeographicData |-> FALSE,
        columnTypes |-> <<>>, rowCount |-> 0, columnCount |-> 0]
  ELSE
    LET columns == Keys(data[1])
        columnTypes ==
          [i \in 1..Len(columns) |->
             [col |-> columns[i], type |-> detectColumnType(data, columns[i])]]
    IN [hasTimeSeries |-> detectTimeSeries(data, columnTypes),
        hasCategories |-> detectCategories(data, columnTypes),
        hasNumericalComparison |-> detectNumericalComparison(data, columnTypes),
        hasGeographicData |-> detectGeographicData(data, columnTypes),
        columnTypes |-> columnTypes,
        rowCount |-> Len(data),
        columnCount |-> Len(columns)]

summarizeColumns(data, columnInfo) ==
  LET columns == columnsOf(columnInfo.columnTypes)
      typeOf(c) == typeOfColumn(columnInfo.columnTypes, c)
      stringColumns == SelectSeq(columns, LAMBDA c : typeOf(c) = "string")
  IN [stringColumns |-> stringColumns,
      numberColumns |-> SelectSeq(columns, LAMBDA c : typeOf(c) = "number"),
      dateLikeColumns |->
        SelectSeq(columns, LAMBDA c : typeOf(c) = "date" \/ isTimeName(c)),
      categoryCandidates |->
        SelectSeq(stringColumns,
                  LAMBDA c : uniqueCount(data, c) >= 2 /\ uniqueCount(data, c) <= 20)]

(***************************************************************************)
(* Chart type selection and scoring: auto-charting.ts,                     *)
(* getSuggestedChartTypes, calculateConfidence, generateReasoning.         *)
(***************************************************************************)
ChartTypes ==
  {"bar_chart", "line_chart", "pie_chart", "area_chart", "scatter_plot",
   "horizontal_bar", "table", "map"}

growthKeywords ==
  << <<"c","r","e","s","c","i","m","e","n","t","o">>, <<"g","r","o","w","t","h">>, <<"v","a","r","i","a","ç","ã","o">>, <<"e","v","o","l","u","ç","ã","o">>, <<"a","u","m","e","n","t","o">>,
     <<"q","u","e","d","a">>, <<"d","i","f","e","r","e","n","ç","a">>, <<"c","o","m","p","a","r","a","r"," ","m","ê","s">>, <<"c","o","m","p","a","r","a","r"," ","m","e","s">> >>

trendKeywords == << <<"t","e","n","d","ê","n","c","i","a">>, <<"t","e","n","d","e","n","c","i","a">>, <<"a","o"," ","l","o","n","g","o">>, <<"t","i","m","e","l","i","n","e">> >>

distributionKeywords ==
  << <<"p","r","o","p","o","r","ç","ã","o">>, <<"p","r","o","p","o","r","c","a","o">>, <<"d","i","s","t","r","i","b","u","i","ç","ã","o">>, <<"p","e","r","c","e","n","t","u","a","l">>,
     <<"p","a","r","t","i","c","i","p","a","ç","ã","o">>, <<"p","a","r","t","i","c","i","p","a","c","a","o">> >>

rankingKeywords == << <<"t","o","p">>, <<"r","a","n","k","i","n","g">>, <<"m","a","i","o","r","e","s">>, <<"m","e","n","o","r","e","s">>, <<"o","r","d","e","n","a","r">> >>

correlationKeywords ==
  << <<"c","o","r","r","e","l","a","ç","ã","o">>, <<"c","o","r","r","e","l","a","c","a","o">>, <<"r","e","l","a","ç","ã","o">>, <<"r","e","l","a","c","a","o">>, <<"i","m","p","a","c","t","o">>,
     <<"i","n","f","l","u","ê","n","c","i","a">>, <<"i","n","f","l","u","e","n","c","i","a">> >>

\* a removal of duplicates that keeps the last occurrence of each element
dedupe_keepLast(seq) ==
  LET keep == {i \in 1..Len(seq) : \A j \in (i + 1)..Len(seq) : seq[j] # seq[i]}
  IN [k \in 1..Cardinality(keep) |->
        seq[CHOOSE i \in keep : Cardinality({j \in keep : j < i}) = k - 1]]

\* [...new Set(suggestions)]: the first occurrence of each element, in order
RECURSIVE dedupe(_)
dedupe(seq) ==
  IF seq = <<>> THEN <<>>
  ELSE LET init == dedupe(SubSeq(seq, 1, Len(seq) - 1))
           last == seq[Len(seq)]
       IN IF \E i \in 1..Len(init) : init[i] = last THEN init ELSE Append(init, last)

\* a selection without the fallback: an empty candidate list stays empty
fallbackTypes_none(suggestions) == suggestions

\* a fallback that pushes the two types in the other order
fallbackTypes_barFirst(suggestions) ==
  IF Len(suggestions) = 0 THEN <<"bar_chart", "table">> ELSE suggestions

\* if (suggestions.length === 0) suggestions.push('table', 'bar_chart')
fallbackTypes(suggestions) ==
  IF Len(suggestions) = 0 THEN <<"table", "bar_chart">> ELSE suggestions

getSuggestedChartTypes(context) ==
  LET question == context.question
      hasCategory == context.hasCategory
      categoryUniqueCount == context.categoryUniqueCount
      hasTime == context.hasTime
      hasTwoNumbers == context.hasTwoNumbers
      hasTwoCategories == context.hasTwoCategories
      asksGrowth == includesAny(question, growthKeywords)
      asksTrend == includesAny(question, trendKeywords)
      asksDistribution == includesAny(question, distributionKeywords)
      asksRanking == includesAny(question, rankingKeywords)
      asksCorrelation == includesAny(question, correlationKeywords)
      \* 0) explicit multi-dimension comparison
      s0 == IF hasTwoCategories
            THEN (IF hasTime \/ asksTrend \/ asksGrowth
                  THEN <<"line_chart">> ELSE <<"bar_chart">>)
            ELSE <<>>
      \* 1) time series / growth
      s1 == IF hasTime \/ asksGrowth \/ asksTrend
            THEN <<"line_chart", "area_chart">> ELSE <<>>
      \* 2) distribution with few categories
      s2 == IF hasCategory /\ categoryUniqueCount > 0 /\ categoryUniqueCount <= 6
               /\ asksDistribution
            THEN <<"pie_chart">> ELSE <<>>
      \* 3) ranking
      s3 == IF asksRanking /\ hasCategory THEN <<"horizontal_bar">> ELSE <<>>
      \* 4) correlation
      s4 == IF hasTwoNumbers /\ asksCorrelation THEN <<"scatter_plot">> ELSE <<>>
      \* 5) generic categorical comparisons
      s5 == IF hasCategory
            THEN (IF categoryUniqueCount <= 6 /\ ~asksTrend /\ ~hasTime
                  THEN <<"pie_chart", "bar_chart">> ELSE <<"bar_chart">>)
            ELSE <<>>
      \* 6) fallbacks
      s6 == IF ~hasCategory /\ hasTwoNumbers THEN <<"scatter_plot">> ELSE <<>>
      suggestions == fallbackTypes(s0 \o s1 \o s2 \o s3 \o s4 \o s5 \o s6)
  IN dedupe(suggestions)

\* a question that is read as empty whatever it says
lowerQuestion_ignored(originalQuestion) == <<>>

\* originalQuestion?.toLowerCase() || ''
lowerQuestion(originalQuestion) ==
  IF originalQuestion.t = "string" THEN toLowerCase(originalQuestion.s) ELSE <<>>

\* a confidence that is not clamped
clampConfidence_none(confidence) == confidence

\* Math.min(confidence, 1.0), in hundredths
clampConfidence(confidence) == Min(confidence, 100)

calculateConfidence(chartType, dataStructure, originalQuestion) ==
  LET question == lowerQuestion(originalQuestion)
      asksGrowth ==
        \/ includes(question, <<"c","r","e","s","c","i","m","e","n","t","o">>) \/ includes(question, <<"g","r","o","w","t","h">>)
        \/ includes(question, <<"v","a","r","i","a","ç","ã","o">>) \/ includes(question, <<"e","v","o","l","u","ç","ã","o">>)
      asksRanking ==
        \/ includes(question, <<"t","o","p">>) \/ includes(question, <<"r","a","n","k","i","n","g">>)
        \/ includes(question, <<"m","a","i","o","r","e","s">>) \/ includes(question, <<"m","e","n","o","r","e","s">>)
      asksMonth == includes(question, <<"m","ê","s">>) \/ includes(question, <<"m","o","n","t","h">>)
      bonus(cond, amount) == IF cond THEN amount ELSE 0
      confidence ==
        50
        + bonus(chartType = "bar_chart" /\ dataStructure.hasCategories, 25)
        + bonus(chartType = "line_chart" /\ dataStructure.hasTimeSeries, 35)
        + bonus(chartType = "area_chart" /\ dataStructure.hasTimeSeries, 30)
        + bonus(chartType = "pie_chart" /\ dataStructure.hasCategories, 20)
        + bonus(chartType = "scatter_plot" /\ dataStructure.hasNumericalComparison, 30)
        + bonus(chartType = "horizontal_bar" /\ dataStructure.hasCategories, 20)
        + bonus(chartType = "line_chart" /\ (asksMonth \/ asksGrowth), 25)
        + bonus(chartType = "area_chart" /\ (asksMonth \/ asksGrowth), 20)
        + bonus(chartType = "horizontal_bar" /\ asksRanking, 25)
        + bonus(chartType = "pie_chart"
                /\ (includes(question, <<"p","r","o","p","o","r">>) \/ includes(question, <<"p","e","r","c","e","n","t">>)), 20)
  IN clampConfidence(confidence)

generateReasoning(chartType, dataStructure, originalQuestion) ==
  LET question == lowerQuestion(originalQuestion)
      asksGrowth ==
        \/ includes(question, <<"c","r","e","s","c","i","m","e","n","t","o">>) \/ includes(question, <<"g","r","o","w","t","h">>)
        \/ includes(question, <<"v","a","r","i","a","ç","ã","o">>) \/ includes(question, <<"e","v","o","l","u","ç","ã","o">>)
  IN CASE chartType = "bar_chart" ->
            IF includes(question, <<"r","e","g","i","ã","o">>) \/ includes(question, <<"r","e","g","i","o","n">>)
            THEN "Gráfico de barras é ideal para comparar vendas entre diferentes regiões"
            ELSE "Gráfico de barras é perfeito para comparar valores entre categorias"
       [] chartType = "line_chart" ->
            IF asksGrowth \/ includes(question, <<"m","ê","s">>) \/ includes(question, <<"m","o","n","t","h">>)
            THEN "Gráfico de linha evidencia crescimento e tendências entre meses"
            ELSE "Gráfico de linha é ideal para mostrar tendências ao longo do tempo"
       [] chartType = "area_chart" ->
            "Gráfico de área destaca volume acumulado e evolução temporal"
       [] chartType = "pie_chart" ->
            "Gráfico de pizza mostra a proporção de cada categoria no total"
       [] chartType = "horizontal_bar" ->
            "Gráfico de barras horizontal é ideal para rankings e comparações"
       [] chartType = "scatter_plot" ->
            "Gráfico de dispersão ajuda a visualizar correlações entre variáveis numéricas"
       [] OTHER -> "Este tipo de visualização é adequado para os dados analisados"

chartTitle(chartType) ==
  CASE chartType = "bar_chart" -> "Gráfico de Barras"
    [] chartType = "line_chart" -> "Gráfico de Linha"
    [] chartType = "pie_chart" -> "Gráfico de Pizza"
    [] chartType = "area_chart" -> "Gráfico de Área"
    [] chartType = "scatter_plot" -> "Gráfico de Dispersão"
    [] chartType = "horizontal_bar" -> "Gráfico de Barras Horizontal"
    [] chartType = "table" -> "Tabela"
    [] chartType = "map" -> "Mapa"

chartDescription(chartType) ==
  CASE chartType = "bar_chart" -> "Ideal para comparar valores entre categorias"
    [] chartType = "line_chart" -> "Perfeito para mostrar tendências ao longo do tempo"
    [] chartType = "pie_chart" -> "Ótimo para mostrar proporções de um todo"
    [] chartType = "area_chart" -> "Bom para mostrar volume e tendências"
    [] chartType = "scatter_plot" -> "Ideal para correlacionar duas variáveis numéricas"
    [] chartType = "horizontal_bar" -> "Bom para rankings e comparações"
    [] chartType = "table" -> "Apresenta todos os dados de forma organizada"
    [] chartType = "map" -> "Ideal para dados geográficos"

createChartSuggestion(chartType, config, dataStructure, originalQuestion) ==
  [type |-> chartType,
   title |-> chartTitle(chartType),
   description |-> chartDescription(chartType),
   confidence |-> calculateConfidence(chartType, dataStructure, originalQuestion),
   config |-> config,
   reasoning |-> generateReasoning(chartType, dataStructure, originalQuestion)]

(***************************************************************************)
(* Chart builders: chart-generator.ts lines 1-367.                         *)
(* A config is [type, data: [labels, datasets], options, meta]; a dataset  *)
(* is [label, data, backgroundColor, borderColor, yAxisID] (the constant   *)
(* borderWidth, fill and tension are left out); an axis is [present,       *)
(* beginAtZero, max, stacked, ticksCallback]; a callback is "function"     *)
(* when a closure is attached and "absent" otherwise.                      *)
(***************************************************************************)
palette ==
  <<"#3b82f6", "#ef4444", "#10b981", "#f59e0b", "#8b5cf6",
    "#06b6d4", "#84cc16", "#f97316", "#ec4899", "#6366f1">>

generateColors(count) == [i \in 1..count |-> palette[((i - 1) % Len(palette)) + 1]]

noAxis ==
  [present |-> FALSE, beginAtZero |-> FALSE, max |-> 0, stacked |-> FALSE,
   ticksCallback |-> "absent"]

zeroBasedAxis == [noAxis EXCEPT !.present = TRUE, !.beginAtZero = TRUE]

\* no growth card to quote: the narrative has no "Variação recente" sentence
noGrowthValue ==
  [present |-> FALSE,
   value |-> [arrow |-> "", deltaPct |-> Null, sign |-> "", deltaAbs |-> Null]]

noNarrative ==
  [present |-> FALSE, totalRows |-> 0, labelCount |-> 0, hasStats |-> FALSE,
   avg |-> Null, maxVal |-> Null, maxLabel |-> <<>>, minVal |-> Null, minLabel |-> <<>>,
   seriesCount |-> 0, growth |-> noGrowthValue]

noMeta == [present |-> FALSE, cards |-> <<>>, narrative |-> noNarrative]

makeDataset(label, values, backgroundColor, borderColor) ==
  [label |-> label, data |-> values, backgroundColor |-> backgroundColor,
   borderColor |-> borderColor, yAxisID |-> ""]

makeOptions(titleText, legend, yAxis) ==
  [responsive |-> TRUE, title |-> titleText, legend |-> legend,
   x |-> noAxis, y |-> yAxis, y1 |-> noAxis, tooltipLabel |-> "absent"]

makeConfig(type, labels, datasets, options) ==
  [type |-> type, data |-> [labels |-> labels, datasets |-> datasets],
   options |-> options, meta |-> noMeta]

\* a resolution that looks for a string column before a time column
findCategoryColumn_stringFirst(data, dataStructure) ==
  LET columns == FirstRowKeys(data)
      typeOf(c) == typeOfColumn(dataStructure.columnTypes, c)
      timeColumns == SelectSeq(columns, LAMBDA c : typeOf(c) = "date" \/ isTimeName(c))
      stringColumns == SelectSeq(columns, LAMBDA c : typeOf(c) = "string")
  IN IF Len(stringColumns) > 0 THEN stringColumns[1]
     ELSE IF Len(timeColumns) > 0 THEN timeColumns[1]
     ELSE IF Len(columns) > 0 THEN columns[1]
     ELSE <<>>

findCategoryColumn(data, dataStructure) ==
  LET columns == FirstRowKeys(data)
      typeOf(c) == typeOfColumn(dataStructure.columnTypes, c)
      timeColumns == SelectSeq(columns, LAMBDA c : typeOf(c) = "date" \/ isTimeName(c))
      stringColumns == SelectSeq(columns, LAMBDA c : typeOf(c) = "string")
  IN IF Len(timeColumns) > 0 THEN timeColumns[1]
     ELSE IF Len(stringColumns) > 0 THEN stringColumns[1]
     ELSE IF Len(columns) > 0 THEN columns[1]
     ELSE <<>>

\* a value column that is always the first column
findValueColumn_first(data, dataStructure) ==
  IF Len(FirstRowKeys(data)) > 0 THEN FirstRowKeys(data)[1] ELSE <<>>

\* a resolution that takes the last number column instead of the first
findValueColumn_lastNumber(data, dataStructure) ==
  LET columns == FirstRowKeys(data)
      typeOf(c) == typeOfColumn(dataStructure.columnTypes, c)
      numberColumns == SelectSeq(columns, LAMBDA c : typeOf(c) = "number")
  IN IF Len(numberColumns) > 0 THEN numberColumns[Len(numberColumns)]
     ELSE IF Len(columns) > 1 /\ columns[2] # <<>> THEN columns[2]
     ELSE IF Len(columns) > 0 THEN columns[1]
     ELSE <<>>

findValueColumn(data, dataStructure) ==
  LET columns == FirstRowKeys(data)
      typeOf(c) == typeOfColumn(dataStructure.columnTypes, c)
      numberColumns == SelectSeq(columns, LAMBDA c : typeOf(c) = "number")
  IN IF Len(numberColumns) > 0 THEN numberColumns[1]
     ELSE IF Len(columns) > 1 /\ columns[2] # <<>> THEN columns[2]
     ELSE IF Len(columns) > 0 THEN columns[1]
     ELSE <<>>

\* totals.get(key): the entry of an insertion-ordered Map, or undefined
mapGet(totals, key) ==
  IF \E i \in 1..Len(totals) : totals[i].key = key
  THEN totals[CHOOSE i \in 1..Len(totals) : totals[i].key = key].val
  ELSE Undefined

\* totals.set(key, val): replaces in place, or appends a new key at the end
mapSet(totals, key, val) ==
  IF \E i \in 1..Len(totals) : totals[i].key = key
  THEN [i \in 1..Len(totals) |->
          IF totals[i].key = key THEN [key |-> key, val |-> val] ELSE totals[i]]
  ELSE Append(totals, [key |-> key, val |-> val])

\* the Map after the loop of aggregateByCategory over data
RECURSIVE aggregateTotals(_, _, _)
aggregateTotals(data, categoryColumn, valueColumn) ==
  IF data = <<>> THEN <<>>
  ELSE LET totals == aggregateTotals(SubSeq(data, 1, Len(data) - 1),
                                     categoryColumn, valueColumn)
           row == data[Len(data)]
           key == String(Coalesce(Get(row, categoryColumn), Str(<<>>)))
           value == Number(Coalesce(Get(row, valueColumn), Num(0)))
       IN mapSet(totals, key, Add(OrElse(mapGet(totals, key), Num(0)), value))

aggregateByCategory(data, categoryColumn, valueColumn) ==
  LET totals == aggregateTotals(data, categoryColumn, valueColumn)
  IN [labels |-> [i \in 1..Len(totals) |-> totals[i].key],
      values |-> [i \in 1..Len(totals) |-> OrElse(totals[i].val, Num(0))]]

monthOrder ==
  << <<"j","a","n","u","a","r","y">>, <<"f","e","b","r","u","a","r","y">>, <<"m","a","r","c","h">>, <<"a","p","r","i","l">>, <<"m","a","y">>, <<"j","u","n","e">>, <<"j","u","l","y">>,
     <<"a","u","g","u","s","t">>, <<"s","e","p","t","e","m","b","e","r">>, <<"o","c","t","o","b","e","r">>, <<"n","o","v","e","m","b","e","r">>, <<"d","e","c","e","m","b","e","r">>,
     <<"j","a","n">>, <<"f","e","b">>, <<"m","a","r">>, <<"a","p","r">> >>

monthOrderPt ==
  << <<"j","a","n","e","i","r","o">>, <<"f","e","v","e","r","e","i","r","o">>, <<"m","a","r","ç","o">>, <<"a","b","r","i","l">>, <<"m","a","i","o">>, <<"j","u","n","h","o">>,
     <<"j","u","l","h","o">>, <<"a","g","o","s","t","o">>, <<"s","e","t","e","m","b","r","o">>, <<"o","u","t","u","b","r","o">>, <<"n","o","v","e","m","b","r","o">>, <<"d","e","z","e","m","b","r","o">> >>

\* the value idx gives a label that is no month
NotAMonth == 999

\* idx of sortLabelsIfMonth
monthIdx(name) ==
  LET lower == toLowerCase(name)
  IN IF indexOf(monthOrderPt, lower) # -1 THEN indexOf(monthOrderPt, lower)
     ELSE IF indexOf(monthOrder, lower) # -1 THEN indexOf(monthOrder, lower)
     ELSE NotAMonth

\* Array.prototype.sort((a, b) => a.order - b.order): stable, ascending in order
RECURSIVE sortByOrder(_)
sortByOrder(seq) ==
  IF seq = <<>> THEN <<>>
  ELSE LET init == sortByOrder(SubSeq(seq, 1, Len(seq) - 1))
           last == seq[Len(seq)]
           before == Cardinality({i \in 1..Len(init) : init[i].order <= last.order})
       IN SubSeq(init, 1, before) \o <<last>> \o SubSeq(init, before + 1, Len(init))

\* a sort that keeps the month names only: a label that is no month is
\* dropped with its value
sortLabelsIfMonth_monthsOnly(labels, values) ==
  LET indices == [i \in 1..Len(labels) |-> [i |-> i, order |-> monthIdx(labels[i])]]
      sorted == SelectSeq(sortByOrder(indices), LAMBDA x : x.order # NotAMonth)
  IN IF \A k \in 1..Len(indices) : indices[k].order = NotAMonth
     THEN [labels |-> labels, values |-> values]
     ELSE [labels |-> [k \in 1..Len(sorted) |-> labels[sorted[k].i]],
           values |-> [k \in 1..Len(sorted) |-> values[sorted[k].i]]]

\* a sort that reorders the labels and leaves the values where they were
sortLabelsIfMonth_labelsOnly(labels, values) ==
  LET indices == [i \in 1..Len(labels) |-> [i |-> i, order |-> monthIdx(labels[i])]]
      sorted == sortByOrder(indices)
  IN IF \A k \in 1..Len(indices) : indices[k].order = NotAMonth
     THEN [labels |-> labels, values |-> values]
     ELSE [labels |-> [k \in 1..Len(sorted) |-> labels[sorted[k].i]],
           values |-> values]

sortLabelsIfMonth(labels, values) ==
  LET indices == [i \in 1..Len(labels) |-> [i |-> i, order |-> monthIdx(labels[i])]]
      sorted == sortByOrder(indices)
  IN IF \A k \in 1..Len(indices) : indices[k].order = NotAMonth
     THEN [labels |-> labels, values |-> values]
     ELSE [labels |-> [k \in 1..Len(sorted) |-> labels[sorted[k].i]],
           values |-> [k \in 1..Len(sorted) |-> values[sorted[k].i]]]

generateBarChartConfig(data, dataStructure) ==
  LET categoryColumn == findCategoryColumn(data, dataStructure)
      valueColumn == findValueColumn(data, dataStructure)
      agg == aggregateByCategory(data, categoryColumn, valueColumn)
      sorted == sortLabelsIfMonth(agg.labels, agg.values)
  IN makeConfig("bar_chart", sorted.labels,
       <<makeDataset(valueColumn, sorted.values,
                     generateColors(Len(sorted.values)), "#3b82f6")>>,
       makeOptions(valueColumn \o <<" ","p","o","r"," ">> \o categoryColumn, TRUE, zeroBasedAxis))

generateLineChartConfig(data, dataStructure) ==
  LET categoryColumn == findCategoryColumn(data, dataStructure)
      valueColumn == findValueColumn(data, dataStructure)
      agg == aggregateByCategory(data, categoryColumn, valueColumn)
      sorted == sortLabelsIfMonth(agg.labels, agg.values)
  IN makeConfig("line_chart", sorted.labels,
       <<makeDataset(valueColumn, sorted.values,
                     <<"rgba(59, 130, 246, 0.1)">>, "#3b82f6")>>,
       makeOptions(valueColumn \o <<" ","a","o"," ","l","o","n","g","o"," ","d","o"," ","t","e","m","p","o">>, TRUE, zeroBasedAxis))

generatePieChartConfig(data, dataStructure) ==
  LET categoryColumn == findCategoryColumn(data, dataStructure)
      valueColumn == findValueColumn(data, dataStructure)
      agg == aggregateByCategory(data, categoryColumn, valueColumn)
  IN makeConfig("pie_chart", agg.labels,
       <<makeDataset(valueColumn, agg.values,
                     generateColors(Len(agg.values)), "#ffffff")>>,
       makeOptions(<<"D","i","s","t","r","i","b","u","i","ç","ã","o"," ","d","e"," ">> \o valueColumn, TRUE, noAxis))

generateAreaChartConfig(data, dataStructure) ==
  LET categoryColumn == findCategoryColumn(data, dataStructure)
      valueColumn == findValueColumn(data, dataStructure)
      agg == aggregateByCategory(data, categoryColumn, valueColumn)
      sorted == sortLabelsIfMonth(agg.labels, agg.values)
  IN makeConfig("area_chart", sorted.labels,
       <<makeDataset(valueColumn, sorted.values,
                     <<"rgba(16, 185, 129, 0.3)">>, "#10b981")>>,
       makeOptions(valueColumn \o <<" ","-"," ","V","o","l","u","m","e"," ","a","o"," ","l","o","n","g","o"," ","d","o"," ","t","e","m","p","o">>, TRUE, zeroBasedAxis))

generateHorizontalBarChartConfig(data, dataStructure) ==
  LET categoryColumn == findCategoryColumn(data, dataStructure)
      valueColumn == findValueColumn(data, dataStructure)
      agg == aggregateByCategory(data, categoryColumn, valueColumn)
  IN makeConfig("horizontal_bar", agg.labels,
       <<makeDataset(valueColumn, agg.values,
                     generateColors(Len(agg.values)), "#3b82f6")>>,
       makeOptions(valueColumn \o <<" ","p","o","r"," ">> \o categoryColumn, TRUE, zeroBasedAxis))

generateScatterPlotConfig(data, dataStructure) ==
  LET categoryColumn == findCategoryColumn(data, dataStructure)
      valueColumn == findValueColumn(data, dataStructure)
      labels == [i \in 1..Len(data) |->
                   String(OrElse(Get(data[i], categoryColumn), Str(<<>>)))]
      values == [i \in 1..Len(data) |->
                   Number(OrElse(Get(data[i], valueColumn), Num(0)))]
  IN makeConfig("scatter_plot", labels,
       <<makeDataset(valueColumn, values, generateColors(Len(values)), "#3b82f6")>>,
       makeOptions(valueColumn \o <<" ","v","s"," ">> \o categoryColumn, TRUE, zeroBasedAxis))

generateTableConfig(data, dataStructure) ==
  makeConfig("table", FirstRowKeys(data),
    <<makeDataset(<<"D","a","d","o","s">>, [i \in 1..Len(data) |-> Num(i - 1)], <<>>, "")>>,
    makeOptions(<<"T","a","b","e","l","a"," ","d","e"," ","D","a","d","o","s">>, FALSE, noAxis))

generateChartConfig(chartType, data, dataStructure) ==
  CASE chartType = "bar_chart" -> generateBarChartConfig(data, dataStructure)
    [] chartType = "line_chart" -> generateLineChartConfig(data, dataStructure)
    [] chartType = "pie_chart" -> generatePieChartConfig(data, dataStructure)
    [] chartType = "area_chart" -> generateAreaChartConfig(data, dataStructure)
    [] chartType = "horizontal_bar" -> generateHorizontalBarChartConfig(data, dataStructure)
    [] chartType = "scatter_plot" -> generateScatterPlotConfig(data, dataStructure)
    [] chartType = "table" -> generateTableConfig(data, dataStructure)
    [] OTHER -> generateBarChartConfig(data, dataStructure)

(***************************************************************************)
(* Enrichment pipeline: auto-charting.ts, applyPercentOfTotal,             *)
(* applyGrowthEnrichment, attachNarrative.                                 *)
(***************************************************************************)
\* JSON.parse(JSON.stringify(v)) of a number: NaN and the infinities become null
jsonNumber(v) == IF v.t \in {"NaN", "Infinity", "-Infinity", "undefined"} THEN Null ELSE v

\* a copy of the axis that keeps its function-valued property
jsonAxis_kept(axis) == axis

\* JSON.parse(JSON.stringify(axis)): a function-valued property is dropped
jsonAxis(axis) == [axis EXCEPT !.ticksCallback = "absent"]

\* JSON.parse(JSON.stringify(config))
jsonClone(config) ==
  [config EXCEPT
     !.data.datasets =
       [d \in 1..Len(config.data.datasets) |->
          [config.data.datasets[d] EXCEPT
             !.data = [i \in 1..Len(config.data.datasets[d].data) |->
                         jsonNumber(config.data.datasets[d].data[i])]]],
     !.options.x = jsonAxis(config.options.x),
     !.options.y = jsonAxis(config.options.y),
     !.options.y1 = jsonAxis(config.options.y1),
     !.options.tooltipLabel = "absent",
     !.meta.narrative.avg = jsonNumber(config.meta.narrative.avg),
     !.meta.narrative.maxVal = jsonNumber(config.meta.narrative.maxVal),
     !.meta.narrative.minVal = jsonNumber(config.meta.narrative.minVal)]

\* arr[i] of a 0-based index: undefined outside the array
at(arr, i) == IF i >= 0 /\ i < Len(arr) THEN arr[i + 1] ELSE Undefined

\* the text of labels[i] of a 0-based index, missing when i is outside the array
labelAt(labels, i, missing) == IF i >= 0 /\ i < Len(labels) THEN labels[i + 1] ELSE missing

\* the sum of a sequence of numbers
RECURSIVE sumOf(_)
sumOf(values) ==
  IF values = <<>> THEN Num(0)
  ELSE Add(sumOf(SubSeq(values, 1, Len(values) - 1)), values[Len(values)])

\* a percentage cut after two decimals instead of rounded
percentOf_truncated(val, total) == Fixed((val.n * 100 * Scale) \div total.n)

\* Number(((val / total) * 100).toFixed(2)) for numbers val and total # 0
percentOf(val, total) == Fixed(RoundDiv(val.n * 100 * Scale, total.n))

applyPercentOfTotal(config) ==
  LET cloned == jsonClone(config)
      datasets == cloned.data.datasets
      labels == cloned.data.labels
      \* per label across datasets (bar charts with several datasets)
      totalAtLabel(li) ==
        OrElse(sumOf([d \in 1..Len(datasets) |->
                        Number(Coalesce(at(datasets[d].data, li), Num(0)))]),
               Num(1))
      \* ds.data[li] is assigned for every label: a shorter array grows
      normalizedAcross ==
        [d \in 1..Len(datasets) |->
           [datasets[d] EXCEPT
              !.data = [i \in 1..Max(Len(datasets[d].data), Len(labels)) |->
                          IF i <= Len(labels)
                          THEN percentOf(Number(Coalesce(at(datasets[d].data, i - 1),
                                                         Num(0))),
                                         totalAtLabel(i - 1))
                          ELSE datasets[d].data[i]]]]
      \* the first dataset against its own total (pie charts)
      ds == datasets[1]
      numbers == [i \in 1..Len(ds.data) |-> Number(OrElse(ds.data[i], Num(0)))]
      total == OrElse(sumOf(numbers), Num(1))
      normalizedOwn ==
        [d \in 1..Len(datasets) |->
           IF d = 1
           THEN [ds EXCEPT !.data = [i \in 1..Len(numbers) |-> percentOf(numbers[i], total)]]
           ELSE datasets[d]]
  IN IF cloned.type = "bar_chart" /\ Len(datasets) > 1
     THEN [cloned EXCEPT
             !.data.datasets = normalizedAcross,
             !.options.x = [@ EXCEPT !.present = TRUE, !.stacked = TRUE],
             !.options.y = [@ EXCEPT !.present = TRUE, !.beginAtZero = TRUE,
                                     !.max = 100, !.stacked = TRUE,
                                     !.ticksCallback = "function"],
             !.options.tooltipLabel = "function"]
     ELSE IF cloned.type = "pie_chart" /\ Len(datasets) >= 1
     THEN [cloned EXCEPT
             !.data.datasets = normalizedOwn,
             !.options.tooltipLabel = "function"]
     ELSE config

\* a growth that is the fraction of the previous value, not the percentage
growthPercent_fraction(values, i) ==
  IF i = 0 THEN Null
  ELSE LET prev == OrElse(values[i], Num(0))
       IN IF prev.n = 0 THEN Null
          ELSE Fixed(RoundDiv((values[i + 1].n - prev.n) * Scale, prev.n))

\* growthPercents of applyGrowthEnrichment, for the 0-based index i
growthPercent(values, i) ==
  IF i = 0 THEN Null
  ELSE LET prev == OrElse(values[i], Num(0))
       IN IF prev.n = 0 THEN Null
          ELSE Fixed(RoundDiv((values[i + 1].n - prev.n) * 100 * Scale, prev.n))

applyGrowthEnrichment(config) ==
  IF Len(config.data.datasets) = 0 THEN config
  ELSE
    LET cloned == jsonClone(config)
        labels == cloned.data.labels
        baseDs == cloned.data.datasets[1]
        values == [i \in 1..Len(baseDs.data) |-> Number(OrElse(baseDs.data[i], Num(0)))]
        growthPercents == [i \in 1..Len(values) |-> growthPercent(values, i - 1)]
        lastIdx == Len(values) - 1
        deltaAbs == Fixed(values[lastIdx + 1].n - values[lastIdx].n)
        card ==
          [type |-> "growth",
           title |-> <<"C","r","e","s","c","i","m","e","n","t","o"," ">> \o labelAt(labels, lastIdx - 1, <<"u","n","d","e","f","i","n","e","d">>) \o <<"→">>
                     \o labelAt(labels, lastIdx, <<"u","n","d","e","f","i","n","e","d">>),
           value |-> [arrow |-> IF deltaAbs.n >= 0 THEN "up" ELSE "down",
                      deltaPct |-> growthPercents[lastIdx + 1],
                      sign |-> IF deltaAbs.n >= 0 THEN "+" ELSE "",
                      deltaAbs |-> deltaAbs]]
        growthDs ==
          [label |-> <<"G","r","o","w","t","h"," ","%">>, data |-> growthPercents,
           backgroundColor |-> <<"rgba(239, 68, 68, 0.2)">>, borderColor |-> "#ef4444",
           yAxisID |-> "y1"]
    IN [cloned EXCEPT
          !.meta.present = TRUE,
          !.meta.cards = IF lastIdx >= 1 THEN Append(@, card) ELSE @,
          !.data.datasets = Append(@, growthDs),
          !.options.y = [@ EXCEPT !.present = TRUE, !.beginAtZero = TRUE],
          !.options.y1 = [noAxis EXCEPT !.present = TRUE, !.ticksCallback = "function"]]

\* Math.max(...values): -Infinity for no values
RECURSIVE maxOf(_)
maxOf(values) ==
  IF values = <<>> THEN NegInfinity
  ELSE LET rest == maxOf(SubSeq(values, 1, Len(values) - 1))
           last == values[Len(values)]
       IN IF rest.t = "-Infinity" \/ last.n > rest.n THEN last ELSE rest

\* Math.min(...values): Infinity for no values
RECURSIVE minOf(_)
minOf(values) ==
  IF values = <<>> THEN PosInfinity
  ELSE LET rest == minOf(SubSeq(values, 1, Len(values) - 1))
           last == values[Len(values)]
       IN IF rest.t = "Infinity" \/ last.n < rest.n THEN last ELSE rest

\* cloned.meta.cards?.find(c => c.type === 'growth')
growthCards(cards) == SelectSeq(cards, LAMBDA c : c.type = "growth")

attachNarrative(config, data) ==
  LET cloned == jsonClone(config)
      labels == cloned.data.labels
      datasets == cloned.data.datasets
      hasDatasets == Len(datasets) > 0
      values == IF hasDatasets
                THEN [i \in 1..Len(datasets[1].data) |->
                        Number(OrElse(datasets[1].data[i], Num(0)))]
                ELSE <<>>
      sum == sumOf(values)
      \* avg.toFixed(1)
      avg == IF Len(values) > 0
             THEN Fixed(RoundDiv(sum.n * 10, Len(values) * Scale) * (Scale \div 10))
             ELSE Num(0)
      maxVal == maxOf(values)
      minVal == minOf(values)
      found == growthCards(cloned.meta.cards)
      narrative ==
        [present |-> TRUE,
         totalRows |-> Len(data),
         labelCount |-> Len(labels),
         hasStats |-> hasDatasets,
         avg |-> IF hasDatasets THEN avg ELSE Null,
         maxVal |-> IF hasDatasets THEN maxVal ELSE Null,
         maxLabel |-> IF hasDatasets
                      THEN labelAt(labels, indexOf(values, maxVal), <<>>)
                      ELSE <<>>,
         minVal |-> IF hasDatasets THEN minVal ELSE Null,
         minLabel |-> IF hasDatasets
                      THEN labelAt(labels, indexOf(values, minVal), <<>>)
                      ELSE <<>>,
         seriesCount |-> Len(datasets),
         growth |-> IF hasDatasets /\ Len(found) > 0
                    THEN [present |-> TRUE, value |-> found[1].value]
                    ELSE noGrowthValue]
  IN [cloned EXCEPT !.meta.present = TRUE, !.meta.narrative = narrative]

(***************************************************************************)
(* The engine's entry point: auto-charting.ts, suggestCharts.              *)
(***************************************************************************)
\* new AutoChartingEngine(): private chartSuggestions: ChartSuggestion[] = []
newEngine == [chartSuggestions |-> <<>>]

\* a descending sort that is not stable: equal confidences come out in the
\* reverse of their order in the list
sortSuggestions_tiesReversed(suggestions) ==
  LET keyed == [i \in 1..Len(suggestions) |->
                  [i |-> i,
                   order |-> 0 - (suggestions[i].confidence * (Len(suggestions) + 1) + i)]]
      sorted == sortByOrder(keyed)
  IN [k \in 1..Len(sorted) |-> suggestions[sorted[k].i]]

\* a return without the sort: the candidates stay in the order of the loop
sortSuggestions_asEmitted(suggestions) == suggestions

\* suggestions.sort((a, b) => b.confidence - a.confidence): stable, descending
sortSuggestions(suggestions) ==
  LET keyed == [i \in 1..Len(suggestions) |->
                  [i |-> i, order |-> 0 - suggestions[i].confidence]]
      sorted == sortByOrder(keyed)
  IN [k \in 1..Len(sorted) |-> suggestions[sorted[k].i]]

\* a return without the slice: every candidate is returned
topSuggestions_all(suggestions) == suggestions

\* suggestions.slice(0, 3)
topSuggestions(suggestions) == SubSeq(suggestions, 1, Min(3, Len(suggestions)))

\* the three question flags suggestCharts computes for the enrichment steps
asksGrowthOf(question) == includesAny(question, growthKeywords)

asksDistributionOf(question) == includesAny(question, distributionKeywords)

asksTrendOf(question) == includesAny(question, trendKeywords)

\* a loop body without the percent-of-total enrichment
enrichDistribution_skipped(config, question) == config

\* if (asksDistribution) config = this.applyPercentOfTotal(config)
enrichDistribution(config, question) ==
  IF asksDistributionOf(question) THEN applyPercentOfTotal(config) ELSE config

\* a loop body without the growth enrichment
enrichGrowth_skipped(config, chartType, question, hasTime) == config

\* a loop body that does not ask for a time signal before it enriches
enrichGrowth_untimed(config, chartType, question, hasTime) ==
  IF /\ asksGrowthOf(question) \/ asksTrendOf(question)
     /\ chartType = "line_chart" \/ chartType = "area_chart"
  THEN applyGrowthEnrichment(config) ELSE config

\* if ((asksGrowth || asksTrend) && (line or area chart) && context.hasTime)
\*   config = this.applyGrowthEnrichment(config)
enrichGrowth(config, chartType, question, hasTime) ==
  IF /\ asksGrowthOf(question) \/ asksTrendOf(question)
     /\ chartType = "line_chart" \/ chartType = "area_chart"
     /\ hasTime
  THEN applyGrowthEnrichment(config) ELSE config

\* a loop body that attaches the narrative before the enrichments
suggestionFor_narrativeFirst(chartType, data, dataStructure, question, hasTime, originalQuestion) ==
  createChartSuggestion(
    chartType,
    enrichGrowth(
      enrichDistribution(
        attachNarrative(generateChartConfig(chartType, data, dataStructure), data),
        question),
      chartType, question, hasTime),
    dataStructure, originalQuestion)

\* the body of the for loop of suggestCharts, for one candidate chart type
suggestionFor(chartType, data, dataStructure, question, hasTime, originalQuestion) ==
  createChartSuggestion(
    chartType,
    attachNarrative(
      enrichGrowth(
        enrichDistribution(generateChartConfig(chartType, data, dataStructure), question),
        chartType, question, hasTime),
      data),
    dataStructure, originalQuestion)

\* categoryCandidates[0] || stringColumns[0] || dateLikeColumns[0]
primaryCategory(summary) ==
  OrElse(OrElse(Str(IF Len(summary.categoryCandidates) > 0
                    THEN summary.categoryCandidates[1] ELSE <<>>),
                Str(IF Len(summary.stringColumns) > 0
                    THEN summary.stringColumns[1] ELSE <<>>)),
         Str(IF Len(summary.dateLikeColumns) > 0
             THEN summary.dateLikeColumns[1] ELSE <<>>))

\* allColumnNames.filter(c => question.includes(c))
mentionedColumns(dataStructure, question) ==
  SelectSeq([i \in 1..Len(dataStructure.columnTypes) |->
               toLowerCase(dataStructure.columnTypes[i].col)],
            LAMBDA c : includes(question, c))

\* the context object suggestCharts hands to getSuggestedChartTypes
chartContext(data, dataStructure, question, summary, primary, mentioned) ==
  [dataStructure |-> dataStructure,
   question |-> question,
   hasCategory |-> Len(summary.categoryCandidates) > 0 \/ Len(summary.stringColumns) > 0,
   categoryUniqueCount |-> IF Truthy(primary) THEN uniqueCount(data, primary.s) ELSE 0,
   hasTime |-> dataStructure.hasTimeSeries \/ Len(summary.dateLikeColumns) > 0,
   hasTwoNumbers |-> Len(summary.numberColumns) >= 2,
   hasTwoCategories |->
     \/ Len(summary.categoryCandidates) >= 2
     \/ Len(mentioned) >= 2 /\ Len(summary.stringColumns) >= 2]

\* the for loop of suggestCharts: one suggestion per candidate chart type, with
\* the locals dataStructure and chartTypes
suggestionsOf(chartTypes, data, dataStructure, question, hasTime, originalQuestion) ==
  [suggestions |->
     [i \in 1..Len(chartTypes) |->
        suggestionFor(chartTypes[i], data, dataStructure, question, hasTime,
                      originalQuestion)],
   dataStructure |-> dataStructure,
   chartTypes |-> chartTypes]

\* suggestCharts from the context object to the end of the for loop
suggestionsIn(context, data, originalQuestion) ==
  suggestionsOf(getSuggestedChartTypes(context), data, context.dataStructure,
                context.question, context.hasTime, originalQuestion)

\* suggestCharts from the column summary to the end of the for loop
suggestionsWith(data, dataStructure, question, summary, originalQuestion) ==
  suggestionsIn(chartContext(data, dataStructure, question, summary,
                             primaryCategory(summary),
                             mentionedColumns(dataStructure, question)),
                data, originalQuestion)

\* suggestCharts from the analysed structure to the end of the for loop
suggestionsFrom(data, dataStructure, question, originalQuestion) ==
  suggestionsWith(data, dataStructure, question,
                  summarizeColumns(data, dataStructure), originalQuestion)

\* suggestCharts up to the end of its for loop: the local list `suggestions`
\* before it is sorted, with the locals dataStructure and chartTypes
candidateSuggestions(data, originalQuestion) ==
  suggestionsFrom(data, analyzeDataStructure(data),
                  toLowerCase(OrElse(originalQuestion, Str(<<>>)).s), originalQuestion)

\* an end of suggestCharts that also stores the list in the field chartSuggestions
returnTop_stored(self, local) ==
  [returned |-> topSuggestions(sortSuggestions(local.suggestions)),
   self |-> [self EXCEPT !.chartSuggestions = local.suggestions],
   dataStructure |-> local.dataStructure,
   chartTypes |-> local.chartTypes]

\* the end of suggestCharts: sort, slice, return.  The result holds what the
\* call returns (returned), the engine after the call (self: the call assigns
\* no field) and the locals the properties speak of (dataStructure, chartTypes).
returnTop(self, local) ==
  [returned |-> topSuggestions(sortSuggestions(local.suggestions)),
   self |-> self,
   dataStructure |-> local.dataStructure,
   chartTypes |-> local.chartTypes]

\* an engine that collects the suggestions in its field chartSuggestions instead
\* of a local list: each call adds to what the earlier calls left there
suggestCharts_accumulating(self, data, originalQuestion) ==
  LET local == candidateSuggestions(data, originalQuestion)
      collected == self.chartSuggestions \o local.suggestions
  IN [returned |-> topSuggestions(sortSuggestions(collected)),
      self |-> [chartSuggestions |-> collected],
      dataStructure |-> local.dataStructure,
      chartTypes |-> local.chartTypes]

\* one call of suggestCharts on the engine `self`
suggestCharts(self, data, originalQuestion) ==
  returnTop(self, candidateSuggestions(data, originalQuestion))

(***************************************************************************)
(* Inputs.  A dataset is a sequence of at most MaxRows rows of one shape;  *)
(* a shape is the set of rows it allows.                                   *)
(***************************************************************************)
\* the row with the given keys and values; a key whose value is undefined is left out
row(keys, values) ==
  SelectSeq([i \in 1..Len(keys) |-> [key |-> keys[i], val |-> values[i]]],
            LAMBDA e : e.val.t # "undefined")

\* the rows of the engine's own test, tests/auto-charting.test.ts
regionTotalRows ==
  {row(<< <<"r","e","g","i","o","n">>, <<"t","o","t","a","l">> >>, <<Str(region), Num(total)>>) :
     region \in { <<"N","o","r","t","h">>, <<"S","o","u","t","h">> }, total \in {10, 12}}

\* a value column that holds a text in some rows
regionNoteRows ==
  {row(<< <<"r","e","g","i","o","n">>, <<"t","o","t","a","l">> >>, <<Str(<<"N","o","r","t","h">>), total>>) :
     total \in {Num(10), Str(<<"n","/","a">>)}}

monthTotalRows ==
  {row(<< <<"m","o","n","t","h">>, <<"t","o","t","a","l">> >>, <<Str(<<"J","a","n">>), Num(10)>>),
   row(<< <<"m","o","n","t","h">>, <<"t","o","t","a","l">> >>, <<Str(<<"F","e","b">>), Num(0)>>),
   row(<< <<"m","o","n","t","h">>, <<"t","o","t","a","l">> >>, <<Str(<<"F","e","b">>), Num(12)>>),
   row(<< <<"m","o","n","t","h">>, <<"t","o","t","a","l">> >>, <<Str(<<"M","a","r">>), Num(15)>>)}

priceQuantityRows ==
  {row(<< <<"p","r","i","c","e">>, <<"q","u","a","n","t","i","t","y">> >>, <<Num(1), quantity>>) :
     quantity \in {Num(3), Undefined}}

regionProductRows ==
  {row(<< <<"r","e","g","i","o","n">>, <<"p","r","o","d","u","c","t">>, <<"t","o","t","a","l">> >>, <<Str(region), Str(product), Num(5)>>) :
     region \in { <<"N","o","r","t","h">>, <<"S","o","u","t","h">> }, product \in { <<"A">>, <<"B">> }}

periodoSalesRows ==
  {row(<< <<"p","e","r","i","o","d","o">>, <<"s","a","l","e","s">> >>, <<Str(periodo), Num(7)>>) :
     periodo \in { <<"J","u","l","h","o">>, <<"j","u","n","h","o">> }}

\* a column of booleans
activeTotalRows ==
  {row(<< <<"a","c","t","i","v","e">>, <<"t","o","t","a","l">> >>, <<Bool(active), Num(4)>>) : active \in BOOLEAN}

\* a geographic column before a month column, and two numeric columns of which
\* the second is named total
regionMonthRows ==
  {row(<< <<"r","e","g","i","o","n">>, <<"m","o","n","t","h">>, <<"i","d">>, <<"t","o","t","a","l">> >>,
       <<Str(region), Str(<<"J","a","n">>), Num(1), Num(5)>>) :
     region \in { <<"N","o","r","t","h">>, <<"S","o","u","t","h">> }}

Shapes ==
  {regionTotalRows, regionNoteRows, monthTotalRows, priceQuantityRows,
   regionProductRows, periodoSalesRows, activeTotalRows, regionMonthRows}

DatasetsOf(rows) == UNION {[1..n -> rows] : n \in 0..MaxRows}

Datasets == UNION {DatasetsOf(rows) : rows \in Shapes}

\* the optional question: undefined when the caller gives none
Questions ==
  {Undefined,
   Str(<<"v","e","n","d","a","s"," ","p","o","r"," ","r","e","g","i","ã","o">>),
   Str(<<"C","r","e","s","c","i","m","e","n","t","o"," ","p","o","r"," ","m","ê","s">>),
   Str(<<"a","u","m","e","n","t","o"," ","d","a","s"," ","v","e","n","d","a","s">>),
   Str(<<"d","i","s","t","r","i","b","u","i","ç","ã","o"," ","p","e","r","c","e","n","t","u","a","l">>),
   Str(<<"t","o","p"," ","r","e","g","i","õ","e","s">>),
   Str(<<"c","o","r","r","e","l","a","ç","ã","o">>),
   Str(<<"t","e","n","d","ê","n","c","i","a">>),
   Str(<<"r","e","g","i","o","n"," ","e"," ","p","r","o","d","u","c","t">>)}

\* a question field of a JSON body that is not a string
UntypedQuestions == {Num(0), Num(2024)}

\* the dataset and the question of tests/auto-charting.test.ts
testData ==
  << row(<< <<"r","e","g","i","o","n">>, <<"t","o","t","a","l">> >>, <<Str(<<"N","o","r","t","h">>), Num(10)>>),
     row(<< <<"r","e","g","i","o","n">>, <<"t","o","t","a","l">> >>, <<Str(<<"S","o","u","t","h">>), Num(12)>>) >>

testQuestion == Str(<<"v","e","n","d","a","s"," ","p","o","r"," ","r","e","g","i","ã","o">>)

\* the inputs of SpecDet
DetDatasets ==
  {<<>>,
   << row(<< <<"m","o","n","t","h">>, <<"t","o","t","a","l">> >>, <<Str(<<"J","a","n">>), Num(10)>>),
      row(<< <<"m","o","n","t","h">>, <<"t","o","t","a","l">> >>, <<Str(<<"F","e","b">>), Num(12)>>) >>}

DetQuestions == {Undefined, Str(<<"C","r","e","s","c","i","m","e","n","t","o"," ","p","o","r"," ","m","ê","s">>)}

\* the inputs of SpecSort: lists of distinct labels, as aggregation produces them
SortLabels ==
  { <<"J","a","n","u","a","r","y">>, <<"f","e","b">>, <<"M","a","r">>, <<"J","u","n">>, <<"J","u","l">>, <<"D","e","z","e","m","b","r","o">>, <<"f","e","v">>, <<"N","o","r","t","h">> }

SortInputs ==
  {labels \in UNION {[1..n -> SortLabels] : n \in 0..MaxLabels} :
     \A i, j \in 1..Len(labels) : i # j => labels[i] # labels[j]}

(***************************************************************************)
(* The server: server.ts.  One shared engine; a request is in flight from  *)
(* the client's call until the handler has answered and the answer is      *)
(* sent.  A body is JSON, so its question may be something else than a     *)
(* string; calling toLowerCase on such a value raises a TypeError, which   *)
(* the handler's catch branch answers with status 500.                     *)
(***************************************************************************)
\* "server" is chartingEngine of server.ts, "test" the instance a test creates
Instances == {"server", "test"}

noRequest == [kind |-> "none", valid |-> FALSE, data |-> <<>>, question |-> Undefined]

noResponse == [status |-> 0, kind |-> "none", suggestions |-> <<>>]

noAnalysis == [dataStructure |-> analyzeDataStructure(<<>>), chartTypes |-> <<>>]

noSort == [labels |-> <<>>, values |-> <<>>]

noUnit == [fn |-> "none"]

noResult == [done |-> FALSE]

Init ==
  /\ engine = [i \in Instances |-> newEngine]
  /\ request = noRequest
  /\ response = noResponse
  /\ analysis = noAnalysis
  /\ calls = <<>>
  /\ sortArgs = noSort
  /\ sortResult = noSort
  /\ unitArgs = noUnit
  /\ unitResult = noResult

\* a client posts a body whose data field is an array
ClientPost(data, question) ==
  /\ request.kind = "none"
  /\ request' = [kind |-> "suggest", valid |-> TRUE, data |-> data, question |-> question]
  /\ UNCHANGED <<engine, response, analysis, calls, sortArgs, sortResult, unitArgs, unitResult>>

\* a client posts a body whose data field is missing or not an array
ClientPostInvalid ==
  /\ request.kind = "none"
  /\ request' = [kind |-> "suggest", valid |-> FALSE, data |-> <<>>, question |-> Undefined]
  /\ UNCHANGED <<engine, response, analysis, calls, sortArgs, sortResult, unitArgs, unitResult>>

\* a client asks GET /health
ClientGetHealth ==
  /\ request.kind = "none"
  /\ request' = [kind |-> "health", valid |-> TRUE, data |-> <<>>, question |-> Undefined]
  /\ UNCHANGED <<engine, response, analysis, calls, sortArgs, sortResult, unitArgs, unitResult>>

\* app.post('/suggest', ...) on a body that fails the Array.isArray test
PostSuggestInvalid ==
  /\ request.kind = "suggest"
  /\ response.kind = "none"
  /\ ~request.valid
  /\ response' = [status |-> 400, kind |-> "error", suggestions |-> <<>>]
  /\ UNCHANGED <<engine, request, analysis, calls, sortArgs, sortResult, unitArgs, unitResult>>

\* the question is lowered without the || '' and the ?. in front of it
raises_unguarded(originalQuestion) == originalQuestion.t # "string"

\* suggestCharts raises a TypeError: (originalQuestion || '').toLowerCase() on
\* a truthy value that is no string, or originalQuestion?.toLowerCase() on a
\* value that is neither nullish nor a string
raises(originalQuestion) ==
  \/ Truthy(originalQuestion) /\ originalQuestion.t # "string"
  \/ ~IsNullish(originalQuestion) /\ originalQuestion.t # "string"

\* res.json({ suggestions }) with the outcome `call` of suggestCharts
Reply(call) ==
  /\ response' = [status |-> 200, kind |-> "suggestions", suggestions |-> call.returned]
  /\ engine' = [engine EXCEPT !["server"] = call.self]
  /\ analysis' = [dataStructure |-> call.dataStructure, chartTypes |-> call.chartTypes]

\* app.post('/suggest', ...) on a body that passes it
PostSuggest ==
  /\ request.kind = "suggest"
  /\ response.kind = "none"
  /\ request.valid
  /\ ~raises(request.question)
  /\ Reply(suggestCharts(engine["server"], request.data, request.question))
  /\ UNCHANGED <<request, calls, sortArgs, sortResult, unitArgs, unitResult>>

\* app.post('/suggest', ...) when suggestCharts raises: the catch branch
PostSuggestFailed ==
  /\ request.kind = "suggest"
  /\ response.kind = "none"
  /\ request.valid
  /\ raises(request.question)
  /\ response' = [status |-> 500, kind |-> "error", suggestions |-> <<>>]
  /\ UNCHANGED <<engine, request, analysis, calls, sortArgs, sortResult, unitArgs, unitResult>>

\* app.get('/health', ...)
GetHealth ==
  /\ request.kind = "health"
  /\ response.kind = "none"
  /\ response' = [status |-> 200, kind |-> "health", suggestions |-> <<>>]
  /\ UNCHANGED <<engine, request, analysis, calls, sortArgs, sortResult, unitArgs, unitResult>>

\* the response has been sent: the exchange is over
SendResponse ==
  /\ response.kind # "none"
  /\ request' = noRequest
  /\ response' = noResponse
  /\ analysis' = noAnalysis
  /\ UNCHANGED <<engine, calls, sortArgs, sortResult, unitArgs, unitResult>>

Next ==
  \/ \E data \in Datasets, question \in Questions \cup UntypedQuestions :
       ClientPost(data, question)
  \/ ClientPostInvalid
  \/ ClientGetHealth
  \/ PostSuggestInvalid
  \/ PostSuggest
  \/ PostSuggestFailed
  \/ GetHealth
  \/ SendResponse

Spec == Init /\ [][Next]_vars

(***************************************************************************)
(* SpecDet: callers invoke suggestCharts directly, on either instance, and *)
(* every call is logged with what it returned.                             *)
(***************************************************************************)
\* the caller keeps what the call returned
Returned(inst, data, question, call) ==
  /\ engine' = [engine EXCEPT ![inst] = call.self]
  /\ calls' = Append(calls, [inst |-> inst, data |-> data, question |-> question,
                             returned |-> call.returned])

EngineCall(inst, data, question) ==
  /\ Len(calls) < MaxCalls
  /\ Returned(inst, data, question, suggestCharts(engine[inst], data, question))
  /\ UNCHANGED <<request, response, analysis, sortArgs, sortResult, unitArgs, unitResult>>

NextDet ==
  \E inst \in Instances, data \in DetDatasets, question \in DetQuestions :
    EngineCall(inst, data, question)

SpecDet == Init /\ [][NextDet]_vars

(***************************************************************************)
(* SpecSort: sortLabelsIfMonth as a function of its arguments.  The value  *)
(* at position i is i, so a value tells which label it came with.          *)
(***************************************************************************)
InitSort ==
  /\ engine = [i \in Instances |-> newEngine]
  /\ request = noRequest
  /\ response = noResponse
  /\ analysis = noAnalysis
  /\ calls = <<>>
  /\ \E labels \in SortInputs :
       sortArgs = [labels |-> labels, values |-> [i \in 1..Len(labels) |-> Num(i)]]
  /\ sortResult = noSort
  /\ unitArgs = noUnit
  /\ unitResult = noResult

SortLabels_Apply ==
  /\ sortResult = noSort
  /\ sortArgs.labels # <<>>
  /\ sortResult' = sortLabelsIfMonth(sortArgs.labels, sortArgs.values)
  /\ UNCHANGED <<engine, request, response, analysis, calls, sortArgs, unitArgs, unitResult>>

NextSort == SortLabels_Apply

SpecSort == InitSort /\ [][NextSort]_vars


(***************************************************************************)
(* SpecUnit: the functions of the engine and of the builders, each as a    *)
(* function of its arguments.                                              *)
(***************************************************************************)
\* the most entries a pie config has
MaxSlices == 6
\* the most series a bar config has
MaxSeries == 3

\* the labels "1" .. "n"
unitLabels(n) == [i \in 1..n |-> NatToString(i)]

\* a config as the builders make it, with the given series
unitConfig(type, labels, series) ==
  makeConfig(type, labels,
             [d \in 1..Len(series) |->
                makeDataset(<<"s","e","r","i","e","s">> \o NatToString(d), series[d],
                            generateColors(Len(series[d])), "#3b82f6")],
             makeOptions(<<"c","h","a","r","t">>, TRUE, zeroBasedAxis))

\* the configs given to applyPercentOfTotal: pie configs of one series, bar
\* configs of several series over two labels, and bar and line configs of one
\* series, which the enrichment returns as they are; the values are the
\* non-negative numbers 0, 1 and 2
PercentInputs ==
  LET amounts == {Num(0), Num(1), Num(2)}
      pies ==
        UNION {{unitConfig("pie_chart", unitLabels(n), <<values>>) :
                  values \in [1..n -> amounts]} : n \in 0..MaxSlices}
      stackedBars ==
        UNION {{unitConfig("bar_chart", unitLabels(2), series) :
                  series \in [1..s -> [1..2 -> amounts]]} : s \in 2..MaxSeries}
      plain ==
        {unitConfig(type, unitLabels(2), <<values>>) :
           type \in {"bar_chart", "line_chart"}, values \in [1..2 -> amounts]}
  IN {[fn |-> "applyPercentOfTotal", config |-> config] :
        config \in pies \cup stackedBars \cup plain}

\* line configs of one series of at most MaxLabels points, and one of no
\* series; the values over time are falls, zeros and rises
GrowthInputs ==
  LET amounts == {Fixed(-150), Num(0), Num(1), Num(3)}
  IN {[fn |-> "applyGrowthEnrichment", config |-> config] :
        config \in
          {unitConfig("line_chart", <<>>, <<>>)}
          \cup UNION {{unitConfig("line_chart", unitLabels(n), <<values>>) :
                         values \in [1..n -> amounts]} : n \in 0..MaxLabels}}

\* a lower-cased question that holds one keyword of each intent asked for
intentQuestion(intents) ==
  (IF intents.growth THEN <<"q","u","e","d","a"," ">> ELSE <<>>)
  \o (IF intents.trend THEN <<"a","o"," ","l","o","n","g","o"," ">> ELSE <<>>)
  \o (IF intents.distribution THEN <<"p","a","r","t","i","c","i","p","a","c","a","o"," ">> ELSE <<>>)
  \o (IF intents.ranking THEN <<"o","r","d","e","n","a","r"," ">> ELSE <<>>)
  \o (IF intents.correlation THEN <<"i","m","p","a","c","t","o">> ELSE <<>>)

\* every combination of the signals and the intents of a question, with
\* category counts on both sides of the limits 1 and 6 of the selection
SelectorInputs ==
  {[fn |-> "getSuggestedChartTypes",
    intents |-> intents,
    context |-> [dataStructure |-> analyzeDataStructure(<<>>),
                 question |-> intentQuestion(intents),
                 hasCategory |-> signals[1],
                 categoryUniqueCount |-> count,
                 hasTime |-> signals[2],
                 hasTwoNumbers |-> signals[3],
                 hasTwoCategories |-> signals[4]]] :
     signals \in [1..4 -> BOOLEAN], count \in {0, 1, 6, 7},
     intents \in [growth : BOOLEAN, trend : BOOLEAN, distribution : BOOLEAN,
                  ranking : BOOLEAN, correlation : BOOLEAN]}

\* the values of one column "c": at most two rows of any values, and eleven
\* rows of which the first nine hold one value
ColumnInputs ==
  LET values == {Num(1), Str(<<"7">>), Str(<<>>), Bool(TRUE), Str(<<"f","a","l","s","e">>),
                 Str(<<"J","a","n">>), Str(<<"N","o","r","t","h">>), Undefined}
      short == UNION {[1..n -> values] : n \in 0..2}
      long == {[i \in 1..(SampleSize + 1) |->
                  IF i < SampleSize THEN v[1] ELSE IF i = SampleSize THEN v[2] ELSE v[3]] :
                 v \in [1..3 -> values]}
  IN {[fn |-> "detectColumnType",
       data |-> [i \in 1..Len(column) |-> row(<< <<"c">> >>, <<column[i]>>)]] :
        column \in short \cup long}

\* the datasets given to analyzeDataStructure: those the clients post, and
\* rows of one column that holds 1, 2, 20 or 21 distinct words
AnalysisInputs ==
  LET word(n) == [k \in 1..n |-> "x"]
      counted == {[i \in 1..n |-> row(<<column>>, <<Str(word(i))>>)] :
                    n \in {1, 2, 20, 21}, column \in { <<"c","i","t","y">>, <<"n","a","m","e">> }}
  IN {[fn |-> "analyzeDataStructure", data |-> data] : data \in Datasets \cup counted}

UnitInputs ==
  AnalysisInputs \cup ColumnInputs \cup PercentInputs \cup GrowthInputs \cup SelectorInputs
  \cup {[fn |-> "attachNarrative", config |-> input.config] : input \in GrowthInputs}

\* a stage that writes to the config it was given
writesTo_given == "given"

\* const cloned = JSON.parse(JSON.stringify(config)): every assignment of a
\* stage goes to cloned, a new object that shares nothing with config
writesTo == "cloned"

\* the config a stage was given, after the stage has returned `result`
givenAfter(config, result) == IF writesTo = "given" THEN result ELSE config

InitUnit ==
  /\ engine = [i \in Instances |-> newEngine]
  /\ request = noRequest
  /\ response = noResponse
  /\ analysis = noAnalysis
  /\ calls = <<>>
  /\ sortArgs = noSort
  /\ sortResult = noSort
  /\ unitArgs \in UnitInputs
  /\ unitResult = noResult

ApplyPercentOfTotal ==
  /\ unitArgs.fn = "applyPercentOfTotal"
  /\ ~unitResult.done
  /\ unitResult' = [done |-> TRUE, value |-> applyPercentOfTotal(unitArgs.config),
                    given |-> givenAfter(unitArgs.config, applyPercentOfTotal(unitArgs.config))]
  /\ UNCHANGED <<engine, request, response, analysis, calls, sortArgs, sortResult, unitArgs>>

ApplyGrowthEnrichment ==
  /\ unitArgs.fn = "applyGrowthEnrichment"
  /\ ~unitResult.done
  /\ unitResult' = [done |-> TRUE, value |-> applyGrowthEnrichment(unitArgs.config),
                    given |-> givenAfter(unitArgs.config, applyGrowthEnrichment(unitArgs.config))]
  /\ UNCHANGED <<engine, request, response, analysis, calls, sortArgs, sortResult, unitArgs>>

ApplyGetSuggestedChartTypes ==
  /\ unitArgs.fn = "getSuggestedChartTypes"
  /\ ~unitResult.done
  /\ unitResult' = [done |-> TRUE, value |-> getSuggestedChartTypes(unitArgs.context)]
  /\ UNCHANGED <<engine, request, response, analysis, calls, sortArgs, sortResult, unitArgs>>

\* attachNarrative on a config built from two rows
ApplyAttachNarrative ==
  /\ unitArgs.fn = "attachNarrative"
  /\ ~unitResult.done
  /\ unitResult' = [done |-> TRUE, value |-> attachNarrative(unitArgs.config, testData),
                    given |-> givenAfter(unitArgs.config,
                                         attachNarrative(unitArgs.config, testData))]
  /\ UNCHANGED <<engine, request, response, analysis, calls, sortArgs, sortResult, unitArgs>>

ApplyDetectColumnType ==
  /\ unitArgs.fn = "detectColumnType"
  /\ ~unitResult.done
  /\ unitResult' = [done |-> TRUE, value |-> detectColumnType(unitArgs.data, <<"c">>)]
  /\ UNCHANGED <<engine, request, response, analysis, calls, sortArgs, sortResult, unitArgs>>

ApplyAnalyzeDataStructure ==
  /\ unitArgs.fn = "analyzeDataStructure"
  /\ ~unitResult.done
  /\ unitResult' = [done |-> TRUE, value |-> analyzeDataStructure(unitArgs.data)]
  /\ UNCHANGED <<engine, request, response, analysis, calls, sortArgs, sortResult, unitArgs>>

NextUnit ==
  \/ ApplyPercentOfTotal
  \/ ApplyGrowthEnrichment
  \/ ApplyGetSuggestedChartTypes
  \/ ApplyAttachNarrative
  \/ ApplyDetectColumnType
  \/ ApplyAnalyzeDataStructure

SpecUnit == InitUnit /\ [][NextUnit]_vars
(***************************************************************************)
(* Properties.  A request is answered when the handler has put the list    *)
(* returned by suggestCharts in the response; request then still holds the *)
(* dataset and the question, and analysis the locals of the call.          *)
(***************************************************************************)
Answered == response.kind = "suggestions"

returnedTypes == [i \in 1..Len(response.suggestions) |-> response.suggestions[i].type]

\* the position of a chart type in the list getSuggestedChartTypes emitted
emitted(chartType) ==
  CHOOSE k \in 1..Len(analysis.chartTypes) : analysis.chartTypes[k] = chartType

\* C1: for every dataset and question the returned list has at most 3
\* suggestions, and at most as many as getSuggestedChartTypes produced
\* distinct candidate chart types.
C1_LengthBound ==
  Answered =>
    /\ Len(response.suggestions) <= 3
    /\ Len(response.suggestions)
         <= Cardinality({analysis.chartTypes[k] : k \in 1..Len(analysis.chartTypes)})

\* more than three candidates were produced and three were returned
C1_Truncated ==
  /\ Answered
  /\ Len(analysis.chartTypes) > 3
  /\ Len(response.suggestions) = 3

\* the data structure with its four signals replaced
withSignals(dataStructure, signals) ==
  [dataStructure EXCEPT !.hasTimeSeries = signals[1],
                        !.hasCategories = signals[2],
                        !.hasNumericalComparison = signals[3],
                        !.hasGeographicData = signals[4]]

\* C2: every returned suggestion has a confidence between 0 and 1 (0 and 100
\* hundredths), the accumulated bonuses being clamped to 1; and so has the
\* confidence of every chart type under every combination of the four signals
\* and every question.  The confidence reads nothing of the dataset but the
\* signals, so the combinations are taken at the answers to the empty dataset,
\* once for each question.
C2_ConfidenceRange ==
  Answered =>
    /\ \A i \in 1..Len(response.suggestions) :
         /\ response.suggestions[i].confidence >= 0
         /\ response.suggestions[i].confidence <= 100
    /\ request.data = <<>> =>
         \A chartType \in ChartTypes, signals \in [1..4 -> BOOLEAN] :
           LET confidence ==
                 calculateConfidence(chartType,
                                     withSignals(analysis.dataStructure, signals),
                                     request.question)
           IN confidence >= 0 /\ confidence <= 100

\* a line chart over a time series, asked for with a growth word: the bonuses
\* add up to 1.1 and the suggestion carries 1
C2_Clamped ==
  /\ Answered
  /\ analysis.dataStructure.hasTimeSeries
  /\ includes(lowerQuestion(request.question), <<"c","r","e","s","c","i","m","e","n","t","o">>)
  /\ \E i \in 1..Len(response.suggestions) :
       /\ response.suggestions[i].type = "line_chart"
       /\ response.suggestions[i].confidence = 100

\* C3: the returned list is sorted by non-increasing confidence, and two
\* suggestions of equal confidence stand in the order in which
\* getSuggestedChartTypes emitted their chart types.
C3_SortedStable ==
  Answered =>
    \A i, j \in 1..Len(response.suggestions) :
      i < j =>
        /\ response.suggestions[i].confidence >= response.suggestions[j].confidence
        /\ response.suggestions[i].confidence = response.suggestions[j].confidence
             => emitted(response.suggestions[i].type) < emitted(response.suggestions[j].type)

\* line_chart and area_chart both at confidence 1, line_chart first
C3_LineBeforeArea ==
  /\ Answered
  /\ Len(response.suggestions) >= 2
  /\ response.suggestions[1].type = "line_chart"
  /\ response.suggestions[2].type = "area_chart"
  /\ response.suggestions[1].confidence = 100
  /\ response.suggestions[2].confidence = 100

\* C4: two calls of suggestCharts with the same dataset and question return
\* the same list in the same order, on one instance or on two, whatever calls
\* were made in between.
C4_Deterministic ==
  \A i, j \in 1..Len(calls) :
    (calls[i].data = calls[j].data /\ calls[i].question = calls[j].question)
      => calls[i].returned = calls[j].returned

\* the first and the third call on one instance have the same input, and a
\* call with another input and another result was made on it in between
C4_SameInputAgain ==
  /\ Len(calls) = 3
  /\ calls[1].inst = calls[2].inst
  /\ calls[2].inst = calls[3].inst
  /\ calls[1].data = calls[3].data
  /\ calls[1].question = calls[3].question
  /\ calls[1].returned # calls[2].returned
  /\ calls[1].returned = calls[3].returned

\* C5: for every dataset and question suggestCharts returns at least one
\* suggestion whose first entry has a defined chart type, the candidate list
\* never being empty.
C5_NonEmpty ==
  Answered =>
    /\ Len(analysis.chartTypes) >= 1
    /\ Len(response.suggestions) >= 1
    /\ response.suggestions[1].type \in ChartTypes

\* no rule fired on a dataset with rows: the candidates are the fallback
C5_FallbackOnRows ==
  /\ Answered
  /\ request.data # <<>>
  /\ analysis.chartTypes = <<"table", "bar_chart">>
  /\ Len(response.suggestions) = 2

\* C6: for the dataset North 10, South 12 and the question "vendas por
\* região" the first suggestion is a bar chart with confidence above 0.5
\* whose series is the total per region, 10 for North and 12 for South.
C6_RegionTotal ==
  (Answered /\ request.data = testData /\ request.question = testQuestion) =>
    /\ Len(response.suggestions) >= 1
    /\ response.suggestions[1].type = "bar_chart"
    /\ response.suggestions[1].confidence > 50
    /\ response.suggestions[1].config.data.labels = << <<"N","o","r","t","h">>, <<"S","o","u","t","h">> >>
    /\ response.suggestions[1].config.data.datasets[1].data = <<Num(10), Num(12)>>

\* the test's request is answered, with a pie chart behind the bar chart
C6_TestAnswered ==
  /\ Answered
  /\ request.data = testData
  /\ request.question = testQuestion
  /\ returnedTypes = <<"bar_chart", "pie_chart">>

\* the rows have a month column that holds Jan, Feb and Mar and a numeric total
monthTotalData(data) ==
  /\ data # <<>>
  /\ \A n \in 1..Len(data) :
       /\ Keys(data[n]) = << <<"m","o","n","t","h">>, <<"t","o","t","a","l">> >>
       /\ Get(data[n], <<"t","o","t","a","l">>).t = "number"
  /\ {Get(data[n], <<"m","o","n","t","h">>) : n \in 1..Len(data)}
       = {Str(<<"J","a","n">>), Str(<<"F","e","b">>), Str(<<"M","a","r">>)}

\* the suggestion's config metadata holds a growth KPI card
hasGrowthCard(suggestion) ==
  \E c \in 1..Len(suggestion.config.meta.cards) :
    suggestion.config.meta.cards[c].type = "growth"

\* C7: for a dataset whose month column holds Jan, Feb, Mar and whose total
\* column is numeric, and a question containing "crescimento", the returned
\* list includes a line chart whose metadata holds a growth KPI card.
C7_GrowthLine ==
  (/\ Answered
   /\ monthTotalData(request.data)
   /\ includes(lowerQuestion(request.question), <<"c","r","e","s","c","i","m","e","n","t","o">>)) =>
    \E i \in 1..Len(response.suggestions) :
      /\ response.suggestions[i].type = "line_chart"
      /\ hasGrowthCard(response.suggestions[i])

\* Jan 10, Feb 12, Mar 15 asked with "Crescimento por mês": the line chart's
\* card reports the step from Feb to Mar, 3 up, 25 percent
C7_FebToMar ==
  /\ Answered
  /\ monthTotalData(request.data)
  /\ Len(request.data) = 3
  /\ includes(lowerQuestion(request.question), <<"c","r","e","s","c","i","m","e","n","t","o">>)
  /\ response.suggestions[1].type = "line_chart"
  /\ response.suggestions[1].config.data.labels = << <<"J","a","n">>, <<"F","e","b">>, <<"M","a","r">> >>
  /\ Len(response.suggestions[1].config.meta.cards) = 1
  /\ response.suggestions[1].config.meta.cards[1].type = "growth"
  /\ response.suggestions[1].config.meta.cards[1].value.deltaAbs = Num(3)
  /\ response.suggestions[1].config.meta.cards[1].value.deltaPct = Num(25)

\* C8: for an empty dataset and no question the call answers: the four
\* signals are false, columnTypes is empty, rowCount and columnCount are 0,
\* and the suggestions are exactly table then bar_chart.
C8_EmptyDataset ==
  (Answered /\ request.data = <<>> /\ request.question = Undefined) =>
    /\ response.status = 200
    /\ ~analysis.dataStructure.hasTimeSeries
    /\ ~analysis.dataStructure.hasCategories
    /\ ~analysis.dataStructure.hasNumericalComparison
    /\ ~analysis.dataStructure.hasGeographicData
    /\ analysis.dataStructure.columnTypes = <<>>
    /\ analysis.dataStructure.rowCount = 0
    /\ analysis.dataStructure.columnCount = 0
    /\ returnedTypes = <<"table", "bar_chart">>

\* the empty request is answered with two suggestions over no labels
C8_EmptyAnswered ==
  /\ Answered
  /\ request.data = <<>>
  /\ request.question = Undefined
  /\ Len(response.suggestions) = 2
  /\ \A i \in 1..2 : response.suggestions[i].config.data.labels = <<>>

\* the chart types whose builders aggregate by category
AggregatingTypes ==
  {"bar_chart", "line_chart", "area_chart", "pie_chart", "horizontal_bar"}

\* the string form of a row's category value
categoryKey(r, categoryColumn) == String(Coalesce(Get(r, categoryColumn), Str(<<>>)))

\* the sum of the value column over the rows of one category.  With
\* numericOnly a value that is no number counts as 0; without it the sum is
\* the arithmetic one, which is NaN as soon as one value is no number.
groupSum(data, categoryColumn, valueColumn, label, numericOnly) ==
  LET term(r) ==
        LET v == Number(Coalesce(Get(r, valueColumn), Num(0)))
        IN IF numericOnly /\ v.t # "number" THEN Num(0) ELSE v
      upTo[n \in 0..Len(data)] ==
        IF n = 0 THEN Num(0)
        ELSE IF categoryKey(data[n], categoryColumn) = label
             THEN Add(upTo[n - 1], term(data[n]))
             ELSE upTo[n - 1]
  IN upTo[Len(data)]

\* the config a builder emits has one label per category and its sum as value
aggregates(config, data, categoryColumn, valueColumn) ==
  LET labels == config.data.labels
      values == config.data.datasets[1].data
  IN /\ Len(values) = Len(labels)
     /\ \A i, j \in 1..Len(labels) : i # j => labels[i] # labels[j]
     /\ {labels[i] : i \in 1..Len(labels)}
          = {categoryKey(data[n], categoryColumn) : n \in 1..Len(data)}
     /\ \A i \in 1..Len(labels) :
          \/ values[i] = groupSum(data, categoryColumn, valueColumn, labels[i], FALSE)
          \/ values[i] = groupSum(data, categoryColumn, valueColumn, labels[i], TRUE)

\* C9: for every dataset each aggregating builder (bar, line, area, pie,
\* horizontal bar) emits exactly one label per distinct string form of the
\* category value, and for each label the sum of the value column over the
\* rows of that category.  The code emits 0 for a category whose last row
\* holds a value that is no number.
C9_AggregatedSums ==
  Answered =>
    \A chartType \in AggregatingTypes :
      aggregates(generateChartConfig(chartType, request.data, analysis.dataStructure),
                 request.data,
                 findCategoryColumn(request.data, analysis.dataStructure),
                 findValueColumn(request.data, analysis.dataStructure))

\* North 10 followed by North "n/a": the returned bar chart shows 0 for North
C9_TotalLost ==
  /\ Answered
  /\ Len(request.data) = 2
  /\ Get(request.data[1], <<"t","o","t","a","l">>) = Num(10)
  /\ Get(request.data[2], <<"t","o","t","a","l">>) = Str(<<"n","/","a">>)
  /\ \E i \in 1..Len(response.suggestions) :
       /\ response.suggestions[i].type = "bar_chart"
       /\ response.suggestions[i].config.data.labels = << <<"N","o","r","t","h">> >>
       /\ response.suggestions[i].config.data.datasets[1].data = <<Num(0)>>

\* the names of the twelve months: English and Portuguese, full and abbreviated
monthNames ==
  << { <<"j","a","n","u","a","r","y">>, <<"j","a","n">>, <<"j","a","n","e","i","r","o">> },
     { <<"f","e","b","r","u","a","r","y">>, <<"f","e","b">>, <<"f","e","v","e","r","e","i","r","o">>, <<"f","e","v">> },
     { <<"m","a","r","c","h">>, <<"m","a","r">>, <<"m","a","r","ç","o">> },
     { <<"a","p","r","i","l">>, <<"a","p","r">>, <<"a","b","r","i","l">>, <<"a","b","r">> },
     { <<"m","a","y">>, <<"m","a","i","o">>, <<"m","a","i">> },
     { <<"j","u","n","e">>, <<"j","u","n">>, <<"j","u","n","h","o">> },
     { <<"j","u","l","y">>, <<"j","u","l">>, <<"j","u","l","h","o">> },
     { <<"a","u","g","u","s","t">>, <<"a","u","g">>, <<"a","g","o","s","t","o">>, <<"a","g","o">> },
     { <<"s","e","p","t","e","m","b","e","r">>, <<"s","e","p">>, <<"s","e","t","e","m","b","r","o">>, <<"s","e","t">> },
     { <<"o","c","t","o","b","e","r">>, <<"o","c","t">>, <<"o","u","t","u","b","r","o">>, <<"o","u","t">> },
     { <<"n","o","v","e","m","b","e","r">>, <<"n","o","v">>, <<"n","o","v","e","m","b","r","o">> },
     { <<"d","e","c","e","m","b","e","r">>, <<"d","e","c">>, <<"d","e","z","e","m","b","r","o">>, <<"d","e","z">> } >>

\* the number of the month a label names in any letter case, 0 when it names none
monthNumber(label) ==
  IF \E m \in 1..Len(monthNames) : toLowerCase(label) \in monthNames[m]
  THEN CHOOSE m \in 1..Len(monthNames) : toLowerCase(label) \in monthNames[m]
  ELSE 0

\* C10: when every label is a month name (English or Portuguese, full or
\* abbreviated, any letter case), sortLabelsIfMonth returns the labels in
\* chronological order, each with its value.  The code knows no abbreviation
\* after apr and ranks the four it knows behind the full names.
C10_Chronological ==
  (/\ sortResult # noSort
   /\ \A i \in 1..Len(sortArgs.labels) : monthNumber(sortArgs.labels[i]) # 0) =>
    /\ Len(sortResult.labels) = Len(sortArgs.labels)
    /\ \A i, j \in 1..Len(sortResult.labels) :
         i < j => monthNumber(sortResult.labels[i]) <= monthNumber(sortResult.labels[j])
    /\ \A k \in 1..Len(sortResult.labels) :
         \E i \in 1..Len(sortArgs.labels) :
           /\ sortArgs.labels[i] = sortResult.labels[k]
           /\ sortArgs.values[i] = sortResult.values[k]

\* Mar and Dezembro come out with Dezembro first
C10_DecemberBeforeMarch ==
  /\ sortArgs.labels = << <<"M","a","r">>, <<"D","e","z","e","m","b","r","o">> >>
  /\ sortResult.labels = << <<"D","e","z","e","m","b","r","o">>, <<"M","a","r">> >>
  /\ sortResult.values = <<Num(2), Num(1)>>

\* the label is one of the names sortLabelsIfMonth has in its two lists
listedMonth(label) == monthIdx(label) # NotAMonth

\* the position of a label in the list given to sortLabelsIfMonth
givenAt(label) ==
  CHOOSE i \in 1..Len(sortArgs.labels) : sortArgs.labels[i] = label

\* C11 as stated: when at least one label is not a known month name, the
\* labels and values are returned in the order given.
C11_MixedKeepsOrder ==
  (/\ sortResult # noSort
   /\ \E i \in 1..Len(sortArgs.labels) : monthNumber(sortArgs.labels[i]) = 0) =>
    sortResult = sortArgs

\* C11 as amended: when no label is a month name of the code's lists, the
\* labels and values are returned in the order given; when some are, each
\* label keeps its value, the other labels stand behind every listed month
\* name and keep their given order among themselves.
C11_OthersLast ==
  sortResult # noSort =>
    /\ Len(sortResult.labels) = Len(sortArgs.labels)
    /\ Len(sortResult.values) = Len(sortArgs.values)
    /\ (\A i \in 1..Len(sortArgs.labels) : ~listedMonth(sortArgs.labels[i]))
         => sortResult = sortArgs
    /\ \A k \in 1..Len(sortResult.labels) :
         /\ \E i \in 1..Len(sortArgs.labels) : sortArgs.labels[i] = sortResult.labels[k]
         /\ sortResult.values[k] = sortArgs.values[givenAt(sortResult.labels[k])]
    /\ \A j, k \in 1..Len(sortResult.labels) :
         (j < k /\ ~listedMonth(sortResult.labels[j])) =>
           /\ ~listedMonth(sortResult.labels[k])
           /\ givenAt(sortResult.labels[j]) < givenAt(sortResult.labels[k])

\* North, January comes out as January, North
C11_NorthMoved ==
  /\ sortArgs.labels = << <<"N","o","r","t","h">>, <<"J","a","n","u","a","r","y">> >>
  /\ sortResult.labels = << <<"J","a","n","u","a","r","y">>, <<"N","o","r","t","h">> >>
  /\ sortResult.values = <<Num(2), Num(1)>>

\* the function fn of SpecUnit has been applied
unitDone(fn) == unitArgs.fn = fn /\ unitResult.done

\* the values the series of a config hold at the 1-based label position li
seriesAt(config, li) ==
  [d \in 1..Len(config.data.datasets) |-> config.data.datasets[d].data[li]]

\* how far a sum of percentages is from 100, in hundredths
offHundred(values) ==
  IF sumOf(values).n >= 100 * Scale
  THEN sumOf(values).n - 100 * Scale
  ELSE 100 * Scale - sumOf(values).n

\* C12 as stated: after percent-of-total enrichment the normalized values sum
\* to 100 within 0.01, at each label across the series of a bar config of
\* several series and across the entries of the series of a pie config, for
\* every series of non-negative values.
C12_SumsTo100 ==
  unitDone("applyPercentOfTotal") =>
    /\ (unitArgs.config.type = "bar_chart" /\ Len(unitArgs.config.data.datasets) > 1) =>
         \A li \in 1..Len(unitArgs.config.data.labels) :
           offHundred(seriesAt(unitResult.value, li)) <= 1
    /\ unitArgs.config.type = "pie_chart" =>
         offHundred(unitResult.value.data.datasets[1].data) <= 1

\* the percentages of the given values: all 0 when the values sum to 0, else
\* off 100 by at most half a hundredth for each of them
normalized(given, percentages) ==
  /\ Len(percentages) = Len(given)
  /\ IF sumOf(given).n = 0
     THEN \A i \in 1..Len(percentages) : percentages[i] = Num(0)
     ELSE 2 * offHundred(percentages) <= Len(given)

\* C12 as amended: values whose total is positive are replaced by percentages
\* that sum to 100 within 0.005 for each addend (each percentage is rounded to
\* two decimals on its own), and values whose total is 0 all stay 0; at each
\* label across the series of a bar config of several series, and across the
\* entries of the first series of a pie config.
C12_SumsNear100 ==
  unitDone("applyPercentOfTotal") =>
    /\ (unitArgs.config.type = "bar_chart" /\ Len(unitArgs.config.data.datasets) > 1) =>
         \A li \in 1..Len(unitArgs.config.data.labels) :
           normalized(seriesAt(unitArgs.config, li), seriesAt(unitResult.value, li))
    /\ unitArgs.config.type = "pie_chart" =>
         normalized(unitArgs.config.data.datasets[1].data,
                    unitResult.value.data.datasets[1].data)

\* six equal slices become 16.67 each, 100.02 in all
C12_SixSlices ==
  /\ unitDone("applyPercentOfTotal")
  /\ unitArgs.config.type = "pie_chart"
  /\ unitArgs.config.data.datasets[1].data = [i \in 1..6 |-> Num(1)]
  /\ unitResult.value.data.datasets[1].data = [i \in 1..6 |-> Fixed(1667)]

\* the absolute value of an integer
magnitude(n) == IF n < 0 THEN 0 - n ELSE n

\* growth is the change from prev to value in percent of prev, rounded to two
\* decimals: it is a number within half a hundredth of the quotient
roundedGrowth(growth, prev, value) ==
  /\ growth.t = "number"
  /\ 2 * magnitude(growth.n * prev.n - (value.n - prev.n) * 100 * Scale)
       <= magnitude(prev.n)

\* C13: for the primary series v of a growth-enriched config the "Growth %"
\* value at index i > 0 equals (v[i] - v[i-1]) / v[i-1] * 100 rounded to two
\* decimals, and it is null exactly when i = 0 or v[i-1] is 0.
C13_GrowthPercent ==
  (unitDone("applyGrowthEnrichment") /\ Len(unitArgs.config.data.datasets) >= 1) =>
    LET v == unitArgs.config.data.datasets[1].data
        series == unitResult.value.data.datasets
        growth == series[Len(series)]
    IN /\ Len(series) = 2
       /\ growth.label = <<"G","r","o","w","t","h"," ","%">>
       /\ Len(growth.data) = Len(v)
       /\ \A k \in 1..Len(v) :
            /\ growth.data[k] = Null <=> (k = 1 \/ v[k - 1].n = 0)
            /\ growth.data[k] # Null => roundedGrowth(growth.data[k], v[k - 1], v[k])

\* the series 0, 1, 3 gets the growth null, null, 200
C13_ZeroThenTripled ==
  /\ unitDone("applyGrowthEnrichment")
  /\ Len(unitArgs.config.data.datasets) = 1
  /\ unitArgs.config.data.datasets[1].data = <<Num(0), Num(1), Num(3)>>
  /\ unitResult.value.data.datasets[2].data = <<Null, Null, Num(200)>>

\* the config holds no closure: no axis has a tick callback and the options
\* have no tooltip label callback
plainOptions(config) ==
  /\ config.options.x.ticksCallback = "absent"
  /\ config.options.y.ticksCallback = "absent"
  /\ config.options.y1.ticksCallback = "absent"
  /\ config.options.tooltipLabel = "absent"

\* every value of every series is one JSON can carry: a finite number or null
plainSeries(config) ==
  \A d \in 1..Len(config.data.datasets) :
    \A i \in 1..Len(config.data.datasets[d].data) :
      config.data.datasets[d].data[i].t \in {"number", "null"}

\* C14: no suggestion returned by suggestCharts holds an executable callback
\* in its config, also when the question triggers the percent-of-total or the
\* growth enrichment; every suggestion is plain data.
C14_NoCallbacks ==
  Answered =>
    \A i \in 1..Len(response.suggestions) :
      /\ plainOptions(response.suggestions[i].config)
      /\ plainSeries(response.suggestions[i].config)

\* a returned line chart carries the Growth % series on the secondary axis the
\* growth enrichment adds together with its tick callback
C14_GrowthAxisReturned ==
  /\ Answered
  /\ \E i \in 1..Len(response.suggestions) :
       /\ response.suggestions[i].type = "line_chart"
       /\ Len(response.suggestions[i].config.data.datasets) = 2
       /\ response.suggestions[i].config.options.y1.present
       /\ response.suggestions[i].config.options.y1.ticksCallback = "absent"

\* the question is one the signature of suggestCharts allows: a string or none
typedQuestion(question) == question.t \in {"string", "undefined"}

\* C15: suggestCharts raises no error and completes with a suggestion list for
\* every dataset of rows that map column names to strings, numbers, booleans
\* or nothing, the empty dataset included, and for every question, a missing
\* one included: the handler answers 200 with the list, never 500.
C15_NeverRaises ==
  (/\ request.kind = "suggest"
   /\ request.valid
   /\ typedQuestion(request.question)) =>
    /\ ~raises(request.question)
    /\ response.kind # "none" =>
         /\ response.status = 200
         /\ response.kind = "suggestions"
         /\ Len(response.suggestions) \in 1..3

\* no question and a row whose quantity is absent: answered with a list
C15_AbsentAnswered ==
  /\ request.kind = "suggest"
  /\ request.question = Undefined
  /\ \E n \in 1..Len(request.data) : Keys(request.data[n]) = << <<"p","r","i","c","e">> >>
  /\ response.status = 200
  /\ response.kind = "suggestions"

firstSeen(seq) ==
  SelectSeq([i \in 1..Len(seq) |-> [at |-> i, type |-> seq[i]]],
            LAMBDA e : \A j \in 1..(e.at - 1) : seq[j] # e.type)

\* the chart types rules 1 to 7 of the selection append, in order
appendedByRules(c, asks) ==
  LET timely == c.hasTime \/ asks.trend \/ asks.growth
      few == c.categoryUniqueCount >= 1 /\ c.categoryUniqueCount <= 6
      rule1 == IF ~c.hasTwoCategories THEN <<>>
               ELSE IF timely THEN <<"line_chart">> ELSE <<"bar_chart">>
      rule2 == IF timely THEN <<"line_chart", "area_chart">> ELSE <<>>
      rule3 == IF c.hasCategory /\ few /\ asks.distribution THEN <<"pie_chart">> ELSE <<>>
      rule4 == IF asks.ranking /\ c.hasCategory THEN <<"horizontal_bar">> ELSE <<>>
      rule5 == IF c.hasTwoNumbers /\ asks.correlation THEN <<"scatter_plot">> ELSE <<>>
      rule6 == IF ~c.hasCategory THEN <<>>
               ELSE IF c.categoryUniqueCount <= 6 /\ ~(asks.trend \/ c.hasTime)
                    THEN <<"pie_chart", "bar_chart">> ELSE <<"bar_chart">>
      rule7 == IF ~c.hasCategory /\ c.hasTwoNumbers THEN <<"scatter_plot">> ELSE <<>>
  IN rule1 \o rule2 \o rule3 \o rule4 \o rule5 \o rule6 \o rule7

\* rule 8 on what rules 1 to 7 appended
stillEmpty(appended) == IF appended = <<>> THEN <<"table", "bar_chart">> ELSE appended

\* C17: for every combination of hasCategory, categoryUniqueCount, hasTime,
\* hasTwoNumbers, hasTwoCategories and the five intents of the question,
\* getSuggestedChartTypes returns the sequence that rules 1 to 8 append in
\* order, without the later occurrences of a chart type.
C17_RulesInOrder ==
  unitDone("getSuggestedChartTypes") =>
    LET chosen == firstSeen(stillEmpty(appendedByRules(unitArgs.context, unitArgs.intents)))
    IN unitResult.value = [i \in 1..Len(chosen) |-> chosen[i].type]

\* two categories over time, a distribution and a ranking asked for: line is
\* appended twice and bar once, and the result names each once
C17_LineAppendedTwice ==
  /\ unitDone("getSuggestedChartTypes")
  /\ unitArgs.context.hasTwoCategories
  /\ unitArgs.context.hasTime
  /\ unitArgs.context.hasCategory
  /\ unitArgs.context.categoryUniqueCount = 6
  /\ unitArgs.intents.distribution
  /\ unitArgs.intents.ranking
  /\ unitResult.value
       = <<"line_chart", "area_chart", "pie_chart", "horizontal_bar", "bar_chart">>

\* the suggestion's config holds the secondary series "Growth %"
hasGrowthSeries(suggestion) ==
  \E d \in 1..Len(suggestion.config.data.datasets) :
    suggestion.config.data.datasets[d].label = <<"G","r","o","w","t","h"," ","%">>

\* the question has growth or trend intent, the dataset has a time signal and
\* the suggestion is a line or an area chart
growthEnriched(suggestion) ==
  /\ \/ asksGrowthOf(lowerQuestion(request.question))
     \/ asksTrendOf(lowerQuestion(request.question))
  /\ analysis.dataStructure.hasTimeSeries
  /\ suggestion.type \in {"line_chart", "area_chart"}

\* C18 as stated: a returned suggestion carries the "Growth %" series and a
\* growth KPI card if and only if the question has growth or trend intent, the
\* dataset has a time signal and the chart is a line or an area chart; whenever
\* the enrichment is applied the card is attached.
C18_SeriesAndCard ==
  Answered =>
    \A i \in 1..Len(response.suggestions) :
      /\ (hasGrowthSeries(response.suggestions[i]) /\ hasGrowthCard(response.suggestions[i]))
           <=> growthEnriched(response.suggestions[i])
      /\ hasGrowthSeries(response.suggestions[i]) => hasGrowthCard(response.suggestions[i])

\* C18: a returned suggestion carries the "Growth %" series if and only if the
\* question has growth or trend intent, the dataset has a time signal and the
\* chart is a line or an area chart; it carries the growth KPI card if and
\* only if, in addition, its primary series has at least two points.
C18_CardFromTwoPoints ==
  Answered =>
    \A i \in 1..Len(response.suggestions) :
      /\ hasGrowthSeries(response.suggestions[i]) <=> growthEnriched(response.suggestions[i])
      /\ hasGrowthCard(response.suggestions[i])
           <=> /\ growthEnriched(response.suggestions[i])
               /\ Len(response.suggestions[i].config.data.datasets[1].data) >= 2

\* a growth question on rows of the one month Jan: the line chart carries a
\* "Growth %" series of one null and no card
C18_SinglePeriod ==
  /\ Answered
  /\ asksGrowthOf(lowerQuestion(request.question))
  /\ response.suggestions[1].type = "line_chart"
  /\ response.suggestions[1].config.data.labels = << <<"J","a","n">> >>
  /\ Len(response.suggestions[1].config.data.datasets) = 2
  /\ response.suggestions[1].config.data.datasets[2].label = <<"G","r","o","w","t","h"," ","%">>
  /\ response.suggestions[1].config.data.datasets[2].data = <<Null>>
  /\ response.suggestions[1].config.meta.cards = <<>>

\* the series the builder of the chart type emits for the request: the raw
\* aggregated sums
builtSeries(chartType) ==
  generateChartConfig(chartType, request.data, analysis.dataStructure).data.datasets[1].data

\* share is value in percent of total, rounded to two decimals
roundedShare(share, value, total) ==
  /\ share.t = "number"
  /\ 2 * magnitude(share.n * total.n - value.n * 100 * Scale) <= magnitude(total.n)

\* the series holds the percentages of the given values of their own total,
\* or zeros when that total is 0
sharesOf(given, series) ==
  /\ Len(series) = Len(given)
  /\ \A k \in 1..Len(given) :
       IF sumOf(given).n = 0 THEN series[k] = Num(0)
       ELSE roundedShare(series[k], given[k], sumOf(given))

\* the suggestion has one series
singleSeries(suggestion) == Len(suggestion.config.data.datasets) = 1

\* C19 as stated: when the question has distribution intent, every returned
\* bar or pie suggestion of one series holds the percentages of the series' own
\* total, not the raw aggregated sums.
C19_BarAndPieShares ==
  (Answered /\ asksDistributionOf(lowerQuestion(request.question))) =>
    \A i \in 1..Len(response.suggestions) :
      (/\ response.suggestions[i].type \in {"bar_chart", "pie_chart"}
       /\ singleSeries(response.suggestions[i])) =>
        sharesOf(builtSeries(response.suggestions[i].type),
                 response.suggestions[i].config.data.datasets[1].data)

\* C19: when the question has distribution intent, every returned pie
\* suggestion holds the percentages of its series' own total, rounded to two
\* decimals (zeros when the total is 0), and every returned bar suggestion of
\* one series holds the raw aggregated sums.
C19_PieSharesBarSums ==
  (Answered /\ asksDistributionOf(lowerQuestion(request.question))) =>
    \A i \in 1..Len(response.suggestions) :
      /\ response.suggestions[i].type = "pie_chart" =>
           sharesOf(builtSeries("pie_chart"),
                    response.suggestions[i].config.data.datasets[1].data)
      /\ (response.suggestions[i].type = "bar_chart" /\ singleSeries(response.suggestions[i])) =>
           response.suggestions[i].config.data.datasets[1].data = builtSeries("bar_chart")

\* North 10 and South 12 asked for their distribution: the pie holds 45.45
\* and 54.55, the bar 10 and 12
C19_PieBesideBar ==
  /\ Answered
  /\ asksDistributionOf(lowerQuestion(request.question))
  /\ \E i, j \in 1..Len(response.suggestions) :
       /\ response.suggestions[i].type = "pie_chart"
       /\ response.suggestions[i].config.data.datasets[1].data = <<Fixed(4545), Fixed(5455)>>
       /\ response.suggestions[j].type = "bar_chart"
       /\ response.suggestions[j].config.data.datasets[1].data = <<Num(10), Num(12)>>

\* C20: during aggregation an empty, absent or non-numeric value of the value
\* column contributes 0 to its group: each aggregating builder emits for a
\* category the sum of the numeric values of its rows, wherever the row with
\* the other value stands among them.  The code adds NaN to the running total
\* and reads the total as 0 afterwards, so the rows before a value that is no
\* number are lost.
C20_NonNumericAsZero ==
  Answered =>
    \A chartType \in AggregatingTypes :
      LET config == generateChartConfig(chartType, request.data, analysis.dataStructure)
      IN \A i \in 1..Len(config.data.labels) :
           config.data.datasets[1].data[i]
             = groupSum(request.data,
                        findCategoryColumn(request.data, analysis.dataStructure),
                        findValueColumn(request.data, analysis.dataStructure),
                        config.data.labels[i], TRUE)

\* North 10, North "n/a", North 10: the returned bar chart shows 10 for North,
\* the sum of the rows after the text
C20_RestartsAfterText ==
  /\ Answered
  /\ Len(request.data) = 3
  /\ Get(request.data[1], <<"t","o","t","a","l">>) = Num(10)
  /\ Get(request.data[2], <<"t","o","t","a","l">>) = Str(<<"n","/","a">>)
  /\ Get(request.data[3], <<"t","o","t","a","l">>) = Num(10)
  /\ \E i \in 1..Len(response.suggestions) :
       /\ response.suggestions[i].type = "bar_chart"
       /\ response.suggestions[i].config.data.labels = << <<"N","o","r","t","h">> >>
       /\ response.suggestions[i].config.data.datasets[1].data = <<Num(10)>>

\* the narrative of the config speaks of the config as it is returned: of the
\* number of its series and of the largest value of its primary series
narratesReturned(config) ==
  /\ config.meta.narrative.present
  /\ config.meta.narrative.seriesCount = Len(config.data.datasets)
  /\ \A k \in 1..Len(config.data.datasets[1].data) :
       /\ config.meta.narrative.maxVal.t = "number"
       /\ config.data.datasets[1].data[k].n <= config.meta.narrative.maxVal.n

\* the narrative of the config holds the value of each growth card of the config
narratesGrowth(config) ==
  \A c \in 1..Len(config.meta.cards) :
    config.meta.cards[c].type = "growth" =>
      /\ config.meta.narrative.growth.present
      /\ config.meta.narrative.growth.value = config.meta.cards[c].value

\* C21: narrative synthesis runs after the percent-of-total and the growth
\* enrichment for every candidate: every config suggestCharts returns has a
\* narrative in its metadata, the narrative describes the enriched series, and
\* whenever the config has a growth KPI card the narrative holds its value.
C21_NarrativeLast ==
  Answered =>
    \A i \in 1..Len(response.suggestions) :
      /\ narratesReturned(response.suggestions[i].config)
      /\ narratesGrowth(response.suggestions[i].config)

\* a returned line chart has a growth card that its narrative refers to
C21_CardNarrated ==
  /\ Answered
  /\ \E i \in 1..Len(response.suggestions) :
       /\ hasGrowthCard(response.suggestions[i])
       /\ response.suggestions[i].config.meta.narrative.seriesCount = 2
       /\ response.suggestions[i].config.meta.narrative.growth.present

\* the enrichment stages
Stages == {"applyPercentOfTotal", "applyGrowthEnrichment", "attachNarrative"}

asked(question, keywords) ==
  question.t = "string" /\ includesAny(toLowerCase(question.s), keywords)

\* the words for which calculateConfidence grants its keyword bonuses
monthOrGrowthWords ==
  << <<"m","ê","s">>, <<"m","o","n","t","h">>, <<"c","r","e","s","c","i","m","e","n","t","o">>, <<"g","r","o","w","t","h">>, <<"v","a","r","i","a","ç","ã","o">>, <<"e","v","o","l","u","ç","ã","o">> >>

rankingWords == << <<"t","o","p">>, <<"r","a","n","k","i","n","g">>, <<"m","a","i","o","r","e","s">>, <<"m","e","n","o","r","e","s">> >>

proportionWords == << <<"p","r","o","p","o","r">>, <<"p","e","r","c","e","n","t">> >>

\* 0.5 and the bonuses the claim lists, in hundredths; areaOverTime is the
\* bonus of an area chart over a time series, which the claim does not list
accumulated(chartType, dataStructure, question, areaOverTime) ==
  LET bonus(cond, amount) == IF cond THEN amount ELSE 0
  IN 50
     + bonus(chartType = "line_chart" /\ dataStructure.hasTimeSeries, 35)
     + bonus(chartType = "area_chart" /\ dataStructure.hasTimeSeries, areaOverTime)
     + bonus(chartType = "bar_chart" /\ dataStructure.hasCategories, 25)
     + bonus(chartType = "scatter_plot" /\ dataStructure.hasNumericalComparison, 30)
     + bonus(chartType = "pie_chart" /\ dataStructure.hasCategories, 20)
     + bonus(chartType = "horizontal_bar" /\ dataStructure.hasCategories, 20)
     + bonus(chartType = "line_chart" /\ asked(question, monthOrGrowthWords), 25)
     + bonus(chartType = "area_chart" /\ asked(question, monthOrGrowthWords), 20)
     + bonus(chartType = "horizontal_bar" /\ asked(question, rankingWords), 25)
     + bonus(chartType = "pie_chart" /\ asked(question, proportionWords), 20)

\* the confidence of the suggestion is 1 or 0.5 and the bonuses, if that is less
confidenceIs(suggestion, areaOverTime) ==
  suggestion.confidence
    = Min(100, accumulated(suggestion.type, analysis.dataStructure,
                           request.question, areaOverTime))

\* a question of the selector's growth, ranking or distribution intent gives
\* the line, area, horizontal bar or pie suggestion its keyword bonus
intentRewarded(suggestion) ==
  LET question == lowerQuestion(request.question)
      least(amount) == suggestion.confidence >= Min(100, 50 + amount)
  IN /\ (asksGrowthOf(question) /\ suggestion.type = "line_chart") => least(25)
     /\ (asksGrowthOf(question) /\ suggestion.type = "area_chart") => least(20)
     /\ (includesAny(question, rankingKeywords) /\ suggestion.type = "horizontal_bar")
          => least(25)
     /\ (asksDistributionOf(question) /\ suggestion.type = "pie_chart") => least(20)

firstIn(columns, tier) ==
  columns[CHOOSE i \in 1..Len(columns) :
            columns[i] \in tier /\ \A j \in 1..(i - 1) : columns[j] \notin tier]

\* the column a priority of tiers resolves to: the first column of the first
\* tier that holds a column, and the empty name when no tier holds one
RECURSIVE byPriority(_, _)
byPriority(columns, tiers) ==
  IF tiers = <<>> THEN <<>>
  ELSE IF \E i \in 1..Len(columns) : columns[i] \in Head(tiers)
       THEN firstIn(columns, Head(tiers))
       ELSE byPriority(columns, Tail(tiers))

\* the columns of the request, and those of a type or with a word in their name
requestColumns == FirstRowKeys(request.data)

columnSet == {requestColumns[i] : i \in 1..Len(requestColumns)}

typed(type) ==
  {c \in columnSet : typeOfColumn(analysis.dataStructure.columnTypes, c) = type}

named(words) == {c \in columnSet : includesAny(toLowerCase(c), words)}

geographicWords == << <<"r","e","g","i","o","n">>, <<"c","o","u","n","t","r","y">>, <<"s","t","a","t","e">>, <<"c","i","t","y">>, <<"l","o","c","a","t","i","o","n">> >>

timeWords == << <<"m","o","n","t","h">>, <<"d","a","t","e">>, <<"t","i","m","e">> >>

valueWords == << <<"s","a","l","e","s">>, <<"a","m","o","u","n","t">>, <<"t","o","t","a","l">>, <<"v","a","l","u","e">>, <<"q","u","a","n","t","i","t","y">> >>

\* the column at a position of the request's columns, when it has a name
columnAt(i) ==
  IF i <= Len(requestColumns) /\ requestColumns[i] # <<>> THEN {requestColumns[i]} ELSE {}

givenColumn == [i \in 1..Len(unitArgs.data) |-> Get(unitArgs.data[i], <<"c">>)]

\* the values of the first ten rows
firstTen == SubSeq(givenColumn, 1, IF Len(givenColumn) < 10 THEN Len(givenColumn) ELSE 10)

\* a number or a string that parses as a number
numeric(v) == v.t = "number" \/ (v.t = "string" /\ Number(v).t = "number")

\* a boolean or the string "true" or "false"
booleanLike(v) == v.t = "boolean" \/ v \in {Str(<<"t","r","u","e">>), Str(<<"f","a","l","s","e">>)}

\* a string that holds a month name or parses as a date
dateLike(v) ==
  /\ v.t = "string"
  /\ includesAny(toLowerCase(v.s), MonthSubstrings) \/ isValidDate(v.s)

\* the type the first matching rule gives the values
firstMatch(values) ==
  CASE \A i \in 1..Len(values) : numeric(values[i]) -> "number"
    [] \A i \in 1..Len(values) : booleanLike(values[i]) -> "boolean"
    [] \A i \in 1..Len(values) : dateLike(values[i]) -> "date"
    [] OTHER -> "string"

\* C26: detectColumnType looks at the first 10 rows only and classifies them
\* by the first rule that matches: number, else boolean, else date, else
\* string; the values of the rows after the tenth never change the result.
C26_FirstTenRows ==
  unitDone("detectColumnType") => unitResult.value = firstMatch(firstTen)

\* ten rows of "Jan" and an eleventh of "North": the column is typed date
C26_EleventhIgnored ==
  /\ unitDone("detectColumnType")
  /\ Len(givenColumn) = 11
  /\ \A i \in 1..10 : givenColumn[i] = Str(<<"J","a","n">>)
  /\ givenColumn[11] = Str(<<"N","o","r","t","h">>)
  /\ unitResult.value = "date"

\* the column is absent in every sampled row of a dataset that has rows
absentInSample ==
  /\ unitDone("detectColumnType")
  /\ Len(givenColumn) >= 1
  /\ \A i \in 1..Len(firstTen) : firstTen[i] = Undefined

\* C27 as stated: a column whose value is absent in every sampled row of a
\* non-empty dataset is classified as number.
C27_AbsentIsNumber == absentInSample => unitResult.value = "number"

\* C27: a column whose value is absent in every sampled row of a non-empty
\* dataset is classified as string, an absent value passing none of the three
\* tests; only the sample of a dataset without rows is classified as number.
C27_AbsentIsString ==
  /\ absentInSample => unitResult.value = "string"
  /\ (unitDone("detectColumnType") /\ Len(givenColumn) = 0) => unitResult.value = "number"

\* two rows without the column: the column is typed string
C27_TwoRowsAbsent ==
  /\ absentInSample
  /\ Len(givenColumn) = 2
  /\ unitResult.value = "string"

\* the keys of the first row of the dataset given to analyzeDataStructure
firstKeys == {Keys(unitArgs.data[1])[i] : i \in 1..Len(Keys(unitArgs.data[1]))}

\* the type columnTypes of the result holds for the column
resultType(c) == typeOfColumn(unitResult.value.columnTypes, c)

\* the number of distinct values the column has in the dataset
distinctIn(c) == Cardinality({Get(unitArgs.data[n], c) : n \in 1..Len(unitArgs.data)})

\* C28: for every non-empty dataset analyzeDataStructure yields columnTypes
\* whose keys are exactly the keys of the first row, and the four signals:
\* hasTimeSeries iff a column is typed date or named month, date or time;
\* hasCategories iff a string-typed column has from 2 to 20 distinct values;
\* hasNumericalComparison iff at least 2 columns are typed number;
\* hasGeographicData iff a column is named region, country, state, city or
\* location, in any letter case.
C28_SignalsAsDefined ==
  (unitDone("analyzeDataStructure") /\ unitArgs.data # <<>>) =>
    /\ {unitResult.value.columnTypes[i].col : i \in 1..Len(unitResult.value.columnTypes)}
         = firstKeys
    /\ Len(unitResult.value.columnTypes) = Cardinality(firstKeys)
    /\ unitResult.value.hasTimeSeries
         <=> \E c \in firstKeys :
               resultType(c) = "date" \/ includesAny(toLowerCase(c), timeWords)
    /\ unitResult.value.hasCategories
         <=> \E c \in firstKeys :
               resultType(c) = "string" /\ distinctIn(c) >= 2 /\ distinctIn(c) <= 20
    /\ unitResult.value.hasNumericalComparison
         <=> Cardinality({c \in firstKeys : resultType(c) = "number"}) >= 2
    /\ unitResult.value.hasGeographicData
         <=> \E c \in firstKeys : includesAny(toLowerCase(c), geographicWords)

\* 21 rows of 21 distinct city names: geographic, and no categories
C28_TooManyCities ==
  /\ unitDone("analyzeDataStructure")
  /\ Len(unitArgs.data) = 21
  /\ firstKeys = { <<"c","i","t","y">> }
  /\ distinctIn(<<"c","i","t","y">>) = 21
  /\ resultType(<<"c","i","t","y">>) = "string"
  /\ unitResult.value.hasGeographicData
  /\ ~unitResult.value.hasCategories

\* the chart types of the returned suggestions, as a set
returnedSet == {returnedTypes[i] : i \in 1..Len(returnedTypes)}

\* the confidence the candidate of the chart type got in the loop
candidateConfidence(chartType) ==
  calculateConfidence(chartType, analysis.dataStructure, request.question)

\* C29: suggestCharts truncates after it sorted all candidates: every chart
\* type getSuggestedChartTypes emitted and suggestCharts did not return has a
\* confidence of at most that of every returned suggestion, also when it was
\* emitted before the returned ones; and no chart type is returned twice.
C29_TruncatedAfterSort ==
  Answered =>
    /\ \A p \in 1..Len(analysis.chartTypes) :
         analysis.chartTypes[p] \notin returnedSet =>
           \A i \in 1..Len(response.suggestions) :
             candidateConfidence(analysis.chartTypes[p]) <= response.suggestions[i].confidence
    /\ \A i, j \in 1..Len(response.suggestions) :
         response.suggestions[i].type = response.suggestions[j].type => i = j

\* a chart type emitted among the first three is left out for one emitted
\* later, of a higher confidence
C29_EarlyCandidateDropped ==
  /\ Answered
  /\ Len(response.suggestions) = 3
  /\ \E p \in 1..3, i \in 1..3 :
       /\ p <= Len(analysis.chartTypes)
       /\ analysis.chartTypes[p] \notin returnedSet
       /\ emitted(response.suggestions[i].type) > 3
       /\ candidateConfidence(analysis.chartTypes[p]) < response.suggestions[i].confidence

\* how many times the lists hold the label paired with the value
pairCount(lists, label, value) ==
  Cardinality({i \in 1..Len(lists.labels) :
                 lists.labels[i] = label /\ lists.values[i] = value})

\* C30: sortLabelsIfMonth only permutes: its output holds the same multiset
\* of (label, value) pairs as its input, so each label is still paired with
\* the value it was aggregated to, and the output lists are as long as the
\* input lists.
C30_OnlyPermutes ==
  sortResult # noSort =>
    /\ Len(sortResult.labels) = Len(sortArgs.labels)
    /\ Len(sortResult.values) = Len(sortArgs.values)
    /\ \A i \in 1..Len(sortArgs.labels) :
         pairCount(sortResult, sortArgs.labels[i], sortArgs.values[i])
           = pairCount(sortArgs, sortArgs.labels[i], sortArgs.values[i])
    /\ \A k \in 1..Len(sortResult.labels) :
         pairCount(sortArgs, sortResult.labels[k], sortResult.values[k])
           = pairCount(sortResult, sortResult.labels[k], sortResult.values[k])

\* three labels come out in another order than they went in, one of them no
\* month
C30_ThreeReordered ==
  /\ sortResult # noSort
  /\ Len(sortArgs.labels) = 3
  /\ sortResult.labels # sortArgs.labels
  /\ sortResult.values # sortArgs.values
  /\ \E i \in 1..3 : monthIdx(sortArgs.labels[i]) = NotAMonth
====
